---- MODULE Spec2Model ----
(***************************************************************************)
(* Model of the SQL migration connector: the step applier, the script      *)
(* renderer and the per-flavour DDL renderers.                             *)
(*                                                                         *)
(* Conventions.  A rendered string is a sequence of tokens (TLA+ strings); *)
(* concatenation of strings is \o.  An Option<T> is a sequence of length   *)
(* 0 (None) or 1 (Some).  Indexes into tables / columns are 1-based here   *)
(* (0-based in the source).  A PrismaValue::String is a sequence of        *)
(* characters so that escaping is computed, not assumed.                   *)
(***************************************************************************)
EXTENDS Integers, Sequences, FiniteSets, TLC

VARIABLES pc, input, output, index, pos, executed, result

vars == <<pc, input, output, index, pos, executed, result>>

(***************************************************************************)
(* Bounds                                                                  *)
(***************************************************************************)
MaxSteps == 2
MaxRedefine == 2
MaxColumnPairs == 2
MaxDiagnostics == 2
MaxVariants == 3
MaxForeignKeys == 2
MaxActionCode == 4
MaxStringLen == 4
MaxStepIndex == 1
MaxMigrations == 2
MaxDdlColumns == 2
MaxSessionStatements == 2

(***************************************************************************)
(* Generic sequence helpers (Vec / Iterator / join)                        *)
(***************************************************************************)
None == <<>>
Some(x) == <<x>>
is_some(o) == Len(o) > 0
is_none(o) == Len(o) = 0

RECURSIVE Flatten(_)
Flatten(ss) == IF ss = <<>> THEN <<>> ELSE Head(ss) \o Flatten(Tail(ss))

RECURSIVE join(_, _)
join(ss, sep) ==
    IF Len(ss) = 0 THEN <<>>
    ELSE IF Len(ss) = 1 THEN ss[1]
    ELSE ss[1] \o <<sep>> \o join(Tail(ss), sep)

SeqOfLen(S, n) == [1..n -> S]
SeqUpTo(S, n) == UNION {SeqOfLen(S, k) : k \in 0..n}

any(s, P(_)) == \E i \in 1..Len(s) : P(s[i])

map(s, f(_)) == [i \in 1..Len(s) |-> f(s[i])]

\* The string a token sequence stands for.
RECURSIVE str(_)
str(tokens) ==
    IF Len(tokens) = 0 THEN ""
    ELSE IF Len(tokens) = 1 THEN tokens[1]
    ELSE LET m == Len(tokens) \div 2
         IN str(SubSeq(tokens, 1, m)) \o str(SubSeq(tokens, m + 1, Len(tokens)))

filter(s, P(_)) == SelectSeq(s, P)

(***************************************************************************)
(* Schema model (sql-schema-describer) and walkers                         *)
(***************************************************************************)
Pair(p, n) == [previous |-> p, next |-> n]

DefaultValue(kind, vtype, val, cname) ==
    [kind |-> kind, vtype |-> vtype, val |-> val, constraint_name |-> cname]

Column(name, family, arity, auto, default) ==
    [name |-> name, family |-> family, full_data_type |-> <<>>, arity |-> arity,
     auto_increment |-> auto, default |-> default]

Index(name, columns, tpe) == [name |-> name, columns |-> columns, tpe |-> tpe]

ForeignKey(cname, columns, rtable, rcolumns, on_delete, on_update) ==
    [constraint_name |-> cname, columns |-> columns, referenced_table |-> rtable,
     referenced_columns |-> rcolumns, on_delete_action |-> on_delete,
     on_update_action |-> on_update]

Table(name, columns, pk, indexes, fks) ==
    [name |-> name, columns |-> columns, primary_key |-> pk, indexes |-> indexes,
     foreign_keys |-> fks]

\* A walker is the (schema, table) or (schema, table, element) it views.
primary_key_column_names(table) ==
    IF is_some(table.primary_key) THEN Some(table.primary_key[1].columns) ELSE None

is_single_primary_key(table, column) ==
    /\ is_some(table.primary_key)
    /\ table.primary_key[1].columns = <<column.name>>

is_autoincrement(column) == column.auto_increment

is_required(arity) == arity = "Required"
is_nullable(arity) == arity = "Nullable"

\* The foreign keys of the other tables of the schema that point to the table.
RECURSIVE referencing_foreign_keys_from(_, _, _)
referencing_foreign_keys_from(schema, table_index, t) ==
    IF t > Len(schema) THEN <<>>
    ELSE (IF t = table_index THEN <<>>
          ELSE map(filter(schema[t].foreign_keys,
                          LAMBDA fk : fk.referenced_table = schema[table_index].name),
                   LAMBDA fk : [table |-> schema[t].name, fk |-> fk]))
         \o referencing_foreign_keys_from(schema, table_index, t + 1)

referencing_foreign_keys(schema, table_index) ==
    referencing_foreign_keys_from(schema, table_index, 1)

\* ColumnChanges accessors (sql_schema_differ::ColumnChanges)
arity_changed(changes) == "Arity" \in changes
default_changed(changes) == "Default" \in changes
only_default_changed(changes) == changes = {"Default"}

(***************************************************************************)
(* Quoting (sql_renderer::common)                                          *)
(***************************************************************************)
Quoted_Double(name) == <<"\"", name, "\"">>
Quoted_sqlite_ident(name) == Quoted_Double(name)
format_hex(b) == <<"hex">> \o b

(***************************************************************************)
(* sql-ddl: SQLite CREATE TABLE (libs/sql-ddl/src/sqlite.rs)               *)
(***************************************************************************)
SQL_INDENTATION == "    "

SqliteIdentifier(name) == <<"\"", name, "\"">>

\* impl Display for Column
ddl_sqlite_Column_fmt(column) ==
    <<"\"", column.name, "\"", " ", column.type>>
    \o (IF column.not_null THEN <<" NOT NULL">> ELSE <<>>)
    \o (IF column.primary_key THEN <<" PRIMARY KEY">> ELSE <<>>)
    \o (IF is_some(column.default) THEN <<" DEFAULT ">> \o column.default[1] ELSE <<>>)

\* impl Display for ForeignKey
ddl_sqlite_ForeignKey_fmt(fk) ==
    (IF is_some(fk.constraint_name)
        THEN <<"CONSTRAINT ", "\"", fk.constraint_name[1], "\"", " ">> ELSE <<>>)
    \o <<"FOREIGN KEY (">>
    \o join(map(fk.constrains, SqliteIdentifier), ", ")
    \o <<") REFERENCES ", "\"", fk.references[1], "\"", " (">>
    \o join(map(fk.references[2], SqliteIdentifier), ", ")
    \o <<")">>
    \o (IF is_some(fk.on_delete)
        THEN CASE fk.on_delete[1] = "NoAction" -> <<>>
               [] fk.on_delete[1] = "Restrict" -> <<" ON DELETE RESTRICT">>
               [] fk.on_delete[1] = "Cascade" -> <<" ON DELETE CASCADE">>
               [] fk.on_delete[1] = "SetNull" -> <<" ON DELETE SET NULL">>
               [] fk.on_delete[1] = "SetDefault" -> <<" ON DELETE SET DEFAULT">>
        ELSE <<>>)

\* impl Display for CreateTable
ddl_sqlite_CreateTable_fmt(ct) ==
    <<"CREATE TABLE ", "\"", ct.table_name, "\"", " (\n">>
    \o join(map(ct.columns, LAMBDA c : <<SQL_INDENTATION>> \o ddl_sqlite_Column_fmt(c)), ",\n")
    \o (IF is_some(ct.primary_key)
        THEN <<",\n\n", SQL_INDENTATION, "PRIMARY KEY (">>
             \o join(map(ct.primary_key[1], SqliteIdentifier), ", ") \o <<")">>
        ELSE <<>>)
    \o Flatten(map(ct.foreign_keys,
                   LAMBDA fk : <<",\n", SQL_INDENTATION>> \o ddl_sqlite_ForeignKey_fmt(fk)))
    \o <<"\n)">>

(***************************************************************************)
(* SQLite renderer (sql_renderer/sqlite_renderer.rs)                       *)
(***************************************************************************)
\* escape_quotes: every ' of the literal becomes ''
RECURSIVE sqlite_escape_quotes(_)
sqlite_escape_quotes(s) ==
    IF s = <<>> THEN <<>>
    ELSE (IF Head(s) = "'" THEN <<"'", "'">> ELSE <<Head(s)>>)
         \o sqlite_escape_quotes(Tail(s))

Unreachable == <<"!panic">>

sqlite_render_default(default, family) ==
    CASE default.kind = "DBGENERATED" -> default.val
      [] default.kind = "VALUE" /\ default.vtype = "String" /\ family = "String" ->
            <<"'">> \o sqlite_escape_quotes(default.val) \o <<"'">>
      [] default.kind = "VALUE" /\ default.vtype = "Enum" /\ family = "Enum" ->
            <<"'">> \o sqlite_escape_quotes(default.val) \o <<"'">>
      [] default.kind = "VALUE" /\ default.vtype = "Bytes" /\ family = "Binary" ->
            <<"'">> \o format_hex(default.val) \o <<"'">>
      [] default.kind = "NOW" /\ family = "DateTime" -> <<"CURRENT_TIMESTAMP">>
      [] default.kind = "NOW" /\ family # "DateTime" -> Unreachable
      [] default.kind = "VALUE" /\ family = "DateTime" ->
            <<"'">> \o default.val \o <<"'">>
      [] default.kind = "SEQUENCE" -> <<>>
      [] OTHER -> default.val

SqliteFlavour_render_default(default, family) == sqlite_render_default(default, family)

sqlite_render_column_type(family) ==
    CASE family = "Boolean" -> "BOOLEAN"
      [] family = "DateTime" -> "DATETIME"
      [] family = "Float" -> "REAL"
      [] family = "Decimal" -> "REAL"
      [] family = "Int" -> "INTEGER"
      [] family = "BigInt" -> "INTEGER"
      [] family = "String" -> "TEXT"
      [] family = "Binary" -> "BLOB"
      [] OTHER -> "!panic"

sqlite_render_column(table, column) ==
    [name |-> column.name,
     type |-> sqlite_render_column_type(column.family),
     not_null |-> ~is_nullable(column.arity),
     primary_key |-> is_single_primary_key(table, column),
     default |-> IF is_some(column.default)
                    /\ column.default[1].kind \notin {"DBGENERATED", "SEQUENCE"}
                 THEN Some(sqlite_render_default(column.default[1], column.family))
                 ELSE None]

SqliteFlavour_render_create_index(table, idx) ==
    <<"CREATE ", (IF idx.tpe = "Unique" THEN "UNIQUE " ELSE ""), "INDEX ">>
    \o Quoted_Double(idx.name) \o <<" ON ">> \o Quoted_Double(table.name) \o <<"(">>
    \o join(map(idx.columns, Quoted_Double), ", ") \o <<")">>

\* Variant: the table-level primary key is set whatever the columns say.
SqliteFlavour_render_create_table_as_with_key(table, table_name) ==
    ddl_sqlite_CreateTable_fmt(
      [table_name |-> table_name,
       columns |-> map(table.columns, LAMBDA col : sqlite_render_column(table, col)),
       primary_key |-> primary_key_column_names(table),
       foreign_keys |-> map(table.foreign_keys, LAMBDA fk :
           [constrains |-> fk.columns,
            references |-> <<fk.referenced_table, fk.referenced_columns>>,
            constraint_name |-> fk.constraint_name,
            on_delete |-> Some(fk.on_delete_action)])])

SqliteFlavour_render_create_table_as(table, table_name) ==
    LET create_table ==
          [table_name |-> table_name,
           columns |-> map(table.columns, LAMBDA col : sqlite_render_column(table, col)),
           primary_key |-> None,
           foreign_keys |-> map(table.foreign_keys, LAMBDA fk :
               [constrains |-> fk.columns,
                references |-> <<fk.referenced_table, fk.referenced_columns>>,
                constraint_name |-> fk.constraint_name,
                on_delete |-> Some(fk.on_delete_action)])]
    IN ddl_sqlite_CreateTable_fmt(
         IF ~any(table.columns, LAMBDA col : is_single_primary_key(table, col))
         THEN [create_table EXCEPT !.primary_key = primary_key_column_names(table)]
         ELSE create_table)

SqliteFlavour_render_drop_table(table_name) ==
    << <<"PRAGMA foreign_keys=off">>,
       <<"DROP TABLE ">> \o Quoted_Double(table_name),
       <<"PRAGMA foreign_keys=on">> >>

SqliteFlavour_render_create_enum == <<>>
SqliteFlavour_render_drop_enum == <<>>

\* MySQL defines an enum on each column that uses it: no statement.
MysqlFlavour_render_create_enum == <<>>
MysqlFlavour_render_drop_enum == <<>>

\* The column pair (previous column, next column) of a table pair.
columns_of(tables, column_indexes) ==
    Pair(tables.previous.columns[column_indexes.previous],
         tables.next.columns[column_indexes.next])

\* The table pair of a schema pair.
tables_of(schemas, table_index) ==
    Pair(schemas.previous[table_index.previous], schemas.next[table_index.next])

\* Variant: coalesce whenever the next column is required with a default.
sqlite_source_column_no_arity(tables, column_pair) ==
    LET columns == columns_of(tables, column_pair.column_index)
    IN IF is_required(columns.next.arity) /\ is_some(columns.next.default)
       THEN <<"coalesce(">> \o Quoted_sqlite_ident(columns.previous.name) \o <<", ">>
            \o SqliteFlavour_render_default(columns.next.default[1], columns.next.family)
            \o <<") AS ">> \o Quoted_sqlite_ident(columns.previous.name)
       ELSE Quoted_sqlite_ident(columns.previous.name)

sqlite_source_column(tables, column_pair) ==
    LET columns == columns_of(tables, column_pair.column_index)
        col_became_required_with_a_default ==
            /\ arity_changed(column_pair.changes)
            /\ is_required(columns.next.arity)
            /\ is_some(columns.next.default)
    IN IF col_became_required_with_a_default
       THEN <<"coalesce(">> \o Quoted_sqlite_ident(columns.previous.name) \o <<", ">>
            \o SqliteFlavour_render_default(columns.next.default[1], columns.next.family)
            \o <<") AS ">> \o Quoted_sqlite_ident(columns.previous.name)
       ELSE Quoted_sqlite_ident(columns.previous.name)

\* Returns the statements pushed on `steps` (none when there is no column pair).
copy_current_table_into_new_table(redefine_table, tables, temporary_table_name) ==
    IF redefine_table.column_pairs = <<>> THEN <<>>
    ELSE LET destination_columns ==
                 map(redefine_table.column_pairs,
                     LAMBDA cp : tables.next.columns[cp.column_index.next].name)
             source_columns ==
                 map(redefine_table.column_pairs,
                     LAMBDA cp : sqlite_source_column(tables, cp))
         IN << <<"INSERT INTO ", "\"", temporary_table_name, "\"", " (">>
               \o join(map(destination_columns, Quoted_sqlite_ident), ", ")
               \o <<") SELECT ">> \o join(source_columns, ", ")
               \o <<" FROM ", "\"", tables.previous.name, "\"">> >>

sqlite_temporary_table_name(name) == "new_" \o name

\* Variant: the old table is dropped before the copy.
sqlite_redefine_one_table_drop_first(redefine_table, schemas) ==
    LET tables == tables_of(schemas, redefine_table.table_index)
        temporary_table_name == sqlite_temporary_table_name(tables.next.name)
    IN  <<SqliteFlavour_render_create_table_as(tables.next, temporary_table_name)>>
        \o << <<"DROP TABLE ", "\"", tables.previous.name, "\"">> >>
        \o copy_current_table_into_new_table(redefine_table, tables, temporary_table_name)
        \o << <<"ALTER TABLE ", "\"", temporary_table_name, "\"", " RENAME TO ",
                "\"", tables.next.name, "\"">> >>
        \o map(tables.next.indexes,
               LAMBDA idx : SqliteFlavour_render_create_index(tables.next, idx))

sqlite_redefine_one_table(redefine_table, schemas) ==
    LET tables == tables_of(schemas, redefine_table.table_index)
        temporary_table_name == sqlite_temporary_table_name(tables.next.name)
    IN  <<SqliteFlavour_render_create_table_as(tables.next, temporary_table_name)>>
        \o copy_current_table_into_new_table(redefine_table, tables, temporary_table_name)
        \o << <<"DROP TABLE ", "\"", tables.previous.name, "\"">> >>
        \o << <<"ALTER TABLE ", "\"", temporary_table_name, "\"", " RENAME TO ",
                "\"", tables.next.name, "\"">> >>
        \o map(tables.next.indexes,
               LAMBDA idx : SqliteFlavour_render_create_index(tables.next, idx))

SqliteFlavour_render_redefine_tables(tables, schemas) ==
    << <<"PRAGMA foreign_keys=OFF">> >>
    \o Flatten(map(tables, LAMBDA rt : sqlite_redefine_one_table(rt, schemas)))
    \o << <<"PRAGMA foreign_key_check">> >>
    \o << <<"PRAGMA foreign_keys=ON">> >>

(***************************************************************************)
(* MSSQL: expansion of an AlterColumn (sql_migration/expanded_alter_column.rs) *)
(***************************************************************************)
Panic == [op |-> "!panic"]

\* Variant: the column is modified before the default constraint is dropped.
expand_mssql_alter_column_modify_first(columns, column_changes) ==
    IF default_changed(column_changes)
    THEN IF is_none(columns.previous.default) THEN <<Panic>>
         ELSE IF is_none(columns.previous.default[1].constraint_name) THEN <<Panic>>
         ELSE (IF ~only_default_changed(column_changes)
                  THEN <<[op |-> "Modify"]>> ELSE <<>>)
              \o <<[op |-> "DropDefault",
                    constraint_name |-> columns.previous.default[1].constraint_name[1]]>>
              \o (IF is_some(columns.next.default)
                  THEN <<[op |-> "SetDefault", default |-> columns.next.default[1]]>>
                  ELSE <<>>)
    ELSE <<[op |-> "Modify"]>>

\* The two unwrap() calls abort when the previous column has no default or the
\* default has no constraint name.
expand_mssql_alter_column(columns, column_changes) ==
    IF default_changed(column_changes)
    THEN IF is_none(columns.previous.default) THEN <<Panic>>
         ELSE IF is_none(columns.previous.default[1].constraint_name) THEN <<Panic>>
         ELSE <<[op |-> "DropDefault",
                 constraint_name |-> columns.previous.default[1].constraint_name[1]]>>
              \o (IF ~only_default_changed(column_changes)
                  THEN <<[op |-> "Modify"]>> ELSE <<>>)
              \o (IF is_some(columns.next.default)
                  THEN <<[op |-> "SetDefault", default |-> columns.next.default[1]]>>
                  ELSE <<>>)
    ELSE <<[op |-> "Modify"]>>

(***************************************************************************)
(* MSSQL renderer (sql_renderer/mssql_renderer.rs)                         *)
(***************************************************************************)
schema_name == "dbo"

Quoted_mssql_ident(name) == <<"[", name, "]">>
Quoted_Single(s) == <<"'">> \o s \o <<"'">>
QuotedWithSchema(schema, name) == <<"[", schema, "]", ".", "[", name, "]">>

MssqlFlavour_quote(name) == Quoted_mssql_ident(name)
MssqlFlavour_quote_with_schema(name) == QuotedWithSchema(schema_name, name)

render_nullability(column) == IF is_required(column.arity) THEN <<" NOT NULL">> ELSE <<>>

render_on_delete(action) ==
    CASE action = "NoAction" -> <<>>
      [] action = "SetNull" -> <<"ON DELETE SET NULL">>
      [] action = "Cascade" -> <<"ON DELETE CASCADE">>
      [] action = "SetDefault" -> <<"ON DELETE SET DEFAULT">>
      [] action = "Restrict" -> <<"ON DELETE RESTRICT">>

render_on_update(action) ==
    CASE action = "NoAction" -> <<>>
      [] action = "SetNull" -> <<"ON UPDATE SET NULL">>
      [] action = "Cascade" -> <<"ON UPDATE CASCADE">>
      [] action = "SetDefault" -> <<"ON UPDATE SET DEFAULT">>
      [] action = "Restrict" -> <<"ON UPDATE RESTRICT">>

\* str::replace('.', "_") over the index names of the model.
replace_dot(name) ==
    CASE name = "A.u" -> "A_u"
      [] name = "B.u" -> "B_u"
      [] name = "C.u" -> "C_u"
      [] name = "D.u" -> "D_u"
      [] OTHER -> name

mssql_escape_string_literal(s) == sqlite_escape_quotes(s)

mssql_render_column_type(column) ==
    IF column.full_data_type # <<>> THEN column.full_data_type
    ELSE CASE column.family = "Boolean" -> <<"bit">>
           [] column.family = "DateTime" -> <<"datetime2">>
           [] column.family = "Float" -> <<"decimal(32,16)">>
           [] column.family = "Decimal" -> <<"decimal(32,16)">>
           [] column.family = "Int" -> <<"int">>
           [] column.family = "BigInt" -> <<"bigint">>
           [] column.family \in {"String", "Json"} -> <<"nvarchar(1000)">>
           [] column.family = "Binary" -> <<"varbinary(max)">>
           [] OTHER -> <<"!panic">>

MssqlFlavour_render_default(default, family) ==
    CASE default.kind = "DBGENERATED" -> default.val
      [] default.kind = "VALUE" /\ default.vtype = "String" /\ family = "String" ->
            <<"'">> \o mssql_escape_string_literal(default.val) \o <<"'">>
      [] default.kind = "VALUE" /\ default.vtype = "Enum" /\ family = "Enum" ->
            <<"'">> \o mssql_escape_string_literal(default.val) \o <<"'">>
      [] default.kind = "VALUE" /\ default.vtype = "Bytes" /\ family = "Binary" ->
            <<"0x">> \o format_hex(default.val)
      [] default.kind = "NOW" /\ family = "DateTime" -> <<"CURRENT_TIMESTAMP">>
      [] default.kind = "NOW" /\ family # "DateTime" -> Unreachable
      [] default.kind = "VALUE" /\ family = "DateTime" -> <<"'">> \o default.val \o <<"'">>
      [] default.kind = "VALUE" /\ default.vtype = "String" /\ family = "Json" ->
            <<"'">> \o default.val \o <<"'">>
      [] default.kind = "VALUE" /\ default.vtype = "Boolean" /\ family = "Boolean" ->
            IF default.val = <<"true">> THEN <<"1">> ELSE <<"0">>
      [] default.kind = "SEQUENCE" -> <<>>
      [] OTHER -> default.val

MssqlFlavour_render_column(column) ==
    LET default ==
          IF is_some(column.default) /\ column.default[1].kind # "DBGENERATED"
          THEN <<" DEFAULT ">> \o MssqlFlavour_render_default(column.default[1], column.family)
          ELSE <<>>
    IN IF is_autoincrement(column)
       THEN MssqlFlavour_quote(column.name) \o <<" int IDENTITY(1,1)">>
       ELSE MssqlFlavour_quote(column.name) \o <<" ">> \o mssql_render_column_type(column)
            \o render_nullability(column) \o default

\* fk is [table, fk]: the foreign key with the name of the table that owns it.
is_a_relation_loop(fkw) == fkw.table = fkw.fk.referenced_table

MssqlFlavour_render_references(fkw) ==
    <<" REFERENCES ">> \o MssqlFlavour_quote_with_schema(fkw.fk.referenced_table) \o <<"(">>
    \o join(map(fkw.fk.referenced_columns, Quoted_mssql_ident), ",") \o <<") ">>
    \o (IF is_a_relation_loop(fkw) THEN <<"ON DELETE NO ACTION">>
        ELSE render_on_delete(fkw.fk.on_delete_action))
    \o <<" ">>
    \o (IF is_a_relation_loop(fkw) THEN <<"ON UPDATE NO ACTION">>
        ELSE render_on_update(fkw.fk.on_update_action))

MssqlFlavour_render_create_index(table, idx) ==
    <<"CREATE ", (IF idx.tpe = "Unique" THEN "UNIQUE " ELSE ""), "INDEX ">>
    \o MssqlFlavour_quote(replace_dot(idx.name)) \o <<" ON ">>
    \o MssqlFlavour_quote_with_schema(table.name) \o <<"(">>
    \o join(map(idx.columns, MssqlFlavour_quote), ", ") \o <<")">>

MssqlFlavour_render_create_table_as(table, table_name) ==
    LET columns == join(map(table.columns, MssqlFlavour_render_column), ",\n")
        primary_columns == primary_key_column_names(table)
        primary_key ==
            IF is_some(primary_columns) /\ primary_columns[1] # <<>>
            THEN <<",\nCONSTRAINT ">>
                 \o <<"[", "PK_", table.name, "_">> \o join(map(primary_columns[1], LAMBDA c : <<c>>), "_")
                 \o <<"]">>
                 \o <<" PRIMARY KEY (">> \o join(map(primary_columns[1], MssqlFlavour_quote), ",")
                 \o <<")">>
            ELSE <<>>
        constraints == filter(table.indexes, LAMBDA idx : idx.tpe = "Unique")
        rendered_constraints ==
            IF constraints # <<>>
            THEN <<",\n">>
                 \o join(map(constraints, LAMBDA idx :
                        <<"CONSTRAINT ">> \o MssqlFlavour_quote(replace_dot(idx.name))
                        \o <<" UNIQUE (">> \o join(map(idx.columns, MssqlFlavour_quote), ",")
                        \o <<")">>), ",\n")
            ELSE <<>>
    IN <<"CREATE TABLE ">> \o MssqlFlavour_quote_with_schema(table_name) \o <<" (">>
       \o columns \o primary_key \o rendered_constraints \o <<")">>

\* unwrap() of the constraint name aborts when the foreign key has none.
MssqlFlavour_render_drop_foreign_key(fkw) ==
    IF is_none(fkw.fk.constraint_name) THEN <<"!panic">>
    ELSE <<"ALTER TABLE ">> \o MssqlFlavour_quote_with_schema(fkw.table)
         \o <<" DROP CONSTRAINT ">> \o Quoted_mssql_ident(fkw.fk.constraint_name[1])

MssqlFlavour_render_drop_index(table, idx) ==
    IF idx.tpe = "Normal"
    THEN <<"DROP INDEX ">> \o MssqlFlavour_quote(idx.name) \o <<" ON ">>
         \o MssqlFlavour_quote_with_schema(table.name)
    ELSE <<"ALTER TABLE ">> \o MssqlFlavour_quote_with_schema(table.name)
         \o <<" DROP CONSTRAINT ">> \o MssqlFlavour_quote(idx.name)

MssqlFlavour_render_rename_table(name, new_name) ==
    <<"EXEC SP_RENAME N">> \o Quoted_Single(<<schema_name, ".", name>>)
    \o <<", N">> \o Quoted_Single(<<new_name>>)

MssqlFlavour_render_add_foreign_key(fkw) ==
    <<"ALTER TABLE ">> \o MssqlFlavour_quote_with_schema(fkw.table) \o <<" ADD ">>
    \o (IF is_some(fkw.fk.constraint_name)
        THEN <<"CONSTRAINT ">> \o MssqlFlavour_quote(fkw.fk.constraint_name[1]) \o <<" ">>
        ELSE <<>>)
    \o <<"FOREIGN KEY (">> \o join(map(fkw.fk.columns, MssqlFlavour_quote), ", ") \o <<")">>
    \o MssqlFlavour_render_references(fkw)

MssqlFlavour_render_drop_table(table_name) ==
    << <<"DROP TABLE ">> \o MssqlFlavour_quote_with_schema(table_name) >>

mssql_temporary_table_name(name) == "_prisma_new_" \o name

\* The statement that drops every constraint of the table found in the catalog.
mssql_drop_all_constraints(table) ==
    <<"DECLARE @SQL NVARCHAR(MAX) = N'' SELECT @SQL += N'ALTER TABLE ' + ... + ' DROP CONSTRAINT ' + OBJECT_NAME(OBJECT_ID) + ';' FROM SYS.OBJECTS WHERE TYPE_DESC LIKE '%CONSTRAINT' AND OBJECT_NAME(PARENT_OBJECT_ID) = '",
      table, "' AND SCHEMA_NAME(SCHEMA_ID) = '", schema_name, "' EXEC sp_executesql @SQL">>

mssql_copy(tables, temporary_table_name, columns) ==
    <<"IF EXISTS(SELECT * FROM ">> \o MssqlFlavour_quote_with_schema(tables.previous.name)
    \o <<") EXEC('INSERT INTO ">> \o MssqlFlavour_quote_with_schema(temporary_table_name)
    \o <<" (">> \o join(columns, ",") \o <<") SELECT ">> \o join(columns, ",")
    \o <<" FROM ">> \o MssqlFlavour_quote_with_schema(tables.previous.name)
    \o <<" WITH (holdlock tablockx)')">>

\* Variant: the identity columns are looked up in the previous table.
mssql_needs_autoincrement_previous(redefine_table, tables) ==
    any(redefine_table.column_pairs,
        LAMBDA cp : is_autoincrement(columns_of(tables, cp.column_index).previous))

mssql_needs_autoincrement(redefine_table, tables) ==
    any(redefine_table.column_pairs,
        LAMBDA cp : is_autoincrement(columns_of(tables, cp.column_index).next))

\* Variant: the temporary table is created before the constraints are dropped
\* and the indexes of the previous table are kept.
mssql_redefine_one_table_create_first(redefine_table, schemas) ==
    LET tables == tables_of(schemas, redefine_table.table_index)
        temporary_table_name == mssql_temporary_table_name(tables.next.name)
        needs_autoincrement == mssql_needs_autoincrement(redefine_table, tables)
        columns == map(redefine_table.column_pairs,
                       LAMBDA cp : MssqlFlavour_quote(columns_of(tables, cp.column_index).next.name))
    IN  map(referencing_foreign_keys(schemas.previous, redefine_table.table_index.previous),
            MssqlFlavour_render_drop_foreign_key)
        \o <<MssqlFlavour_render_create_table_as(tables.next, temporary_table_name)>>
        \o <<mssql_drop_all_constraints(tables.previous.name)>>
        \o (IF needs_autoincrement
            THEN << <<"SET IDENTITY_INSERT ">>
                    \o MssqlFlavour_quote_with_schema(temporary_table_name) \o <<" ON">> >>
            ELSE <<>>)
        \o <<mssql_copy(tables, temporary_table_name, columns)>>
        \o (IF needs_autoincrement
            THEN << <<"SET IDENTITY_INSERT ">>
                    \o MssqlFlavour_quote_with_schema(temporary_table_name) \o <<" OFF">> >>
            ELSE <<>>)
        \o MssqlFlavour_render_drop_table(tables.previous.name)
        \o <<MssqlFlavour_render_rename_table(temporary_table_name, tables.next.name)>>
        \o map(referencing_foreign_keys(schemas.next, redefine_table.table_index.next),
               MssqlFlavour_render_add_foreign_key)
        \o map(tables.next.indexes,
               LAMBDA idx : MssqlFlavour_render_create_index(tables.next, idx))

mssql_redefine_one_table(redefine_table, schemas) ==
    LET tables == tables_of(schemas, redefine_table.table_index)
        temporary_table_name == mssql_temporary_table_name(tables.next.name)
        needs_autoincrement == mssql_needs_autoincrement(redefine_table, tables)
        columns == map(redefine_table.column_pairs,
                       LAMBDA cp : MssqlFlavour_quote(columns_of(tables, cp.column_index).next.name))
    IN  map(referencing_foreign_keys(schemas.previous, redefine_table.table_index.previous),
            MssqlFlavour_render_drop_foreign_key)
        \o map(tables.previous.indexes,
               LAMBDA idx : MssqlFlavour_render_drop_index(tables.previous, idx))
        \o <<mssql_drop_all_constraints(tables.previous.name)>>
        \o <<MssqlFlavour_render_create_table_as(tables.next, temporary_table_name)>>
        \o (IF needs_autoincrement
            THEN << <<"SET IDENTITY_INSERT ">>
                    \o MssqlFlavour_quote_with_schema(temporary_table_name) \o <<" ON">> >>
            ELSE <<>>)
        \o <<mssql_copy(tables, temporary_table_name, columns)>>
        \o (IF needs_autoincrement
            THEN << <<"SET IDENTITY_INSERT ">>
                    \o MssqlFlavour_quote_with_schema(temporary_table_name) \o <<" OFF">> >>
            ELSE <<>>)
        \o MssqlFlavour_render_drop_table(tables.previous.name)
        \o <<MssqlFlavour_render_rename_table(temporary_table_name, tables.next.name)>>
        \o map(referencing_foreign_keys(schemas.next, redefine_table.table_index.next),
               MssqlFlavour_render_add_foreign_key)
        \o map(tables.next.indexes,
               LAMBDA idx : MssqlFlavour_render_create_index(tables.next, idx))

MssqlFlavour_render_redefine_tables(tables, schemas) ==
    << <<"BEGIN TRANSACTION">> >>
    \o Flatten(map(tables, LAMBDA rt : mssql_redefine_one_table(rt, schemas)))
    \o << <<"COMMIT">> >>

\* The five lists that render_alter_table fills while it walks the changes;
\* each operator gives what one change pushes on the list.
mssql_drop_constraints_of(change, tables) ==
    CASE change.tag = "DropPrimaryKey" ->
            IF is_none(tables.previous.primary_key) THEN <<Unreachable>>
            ELSE IF is_none(tables.previous.primary_key[1].constraint_name) THEN <<Unreachable>>
            ELSE <<MssqlFlavour_quote(tables.previous.primary_key[1].constraint_name[1])>>
      [] change.tag = "AlterColumn" ->
            LET expanded == expand_mssql_alter_column(
                                columns_of(tables, change.column_index), change.changes)
                drops == filter(expanded, LAMBDA alter : alter.op \in {"DropDefault", "!panic"})
            IN map(drops, LAMBDA alter :
                      IF alter.op = "!panic" THEN Unreachable ELSE <<alter.constraint_name>>)
      [] OTHER -> <<>>

mssql_add_constraints_of(change, tables) ==
    CASE change.tag = "AddPrimaryKey" ->
            << <<"CONSTRAINT PK__", tables.next.name, "__">>
               \o join(map(change.columns, LAMBDA c : <<c>>), "__")
               \o <<" PRIMARY KEY (">> \o join(map(change.columns, MssqlFlavour_quote), ",")
               \o <<")">> >>
      [] change.tag = "AlterColumn" ->
            LET columns == columns_of(tables, change.column_index)
                expanded == expand_mssql_alter_column(columns, change.changes)
                sets == filter(expanded, LAMBDA alter : alter.op = "SetDefault")
            IN map(sets, LAMBDA alter :
                      <<"CONSTRAINT DF__", tables.next.name, "__", columns.next.name,
                        " DEFAULT ">>
                      \o MssqlFlavour_render_default(alter.default, columns.next.family)
                      \o <<" FOR ", columns.next.name>>)
      [] OTHER -> <<>>

mssql_add_columns_of(change, tables) ==
    CASE change.tag = "AddColumn" ->
            <<MssqlFlavour_render_column(tables.next.columns[change.column_index])>>
      [] change.tag = "DropAndRecreateColumn" ->
            <<MssqlFlavour_render_column(columns_of(tables, change.column_index).next)>>
      [] OTHER -> <<>>

mssql_drop_columns_of(change, tables) ==
    CASE change.tag = "DropColumn" ->
            <<MssqlFlavour_quote(tables.previous.columns[change.index].name)>>
      [] change.tag = "DropAndRecreateColumn" ->
            <<MssqlFlavour_quote(columns_of(tables, change.column_index).previous.name)>>
      [] OTHER -> <<>>

mssql_column_mods_of(change, tables) ==
    CASE change.tag = "AlterColumn" ->
            LET columns == columns_of(tables, change.column_index)
                expanded == expand_mssql_alter_column(columns, change.changes)
                mods == filter(expanded, LAMBDA alter : alter.op = "Modify")
            IN map(mods, LAMBDA alter :
                      <<"ALTER TABLE ">> \o MssqlFlavour_quote_with_schema(tables.previous.name)
                      \o <<" ALTER COLUMN ">> \o MssqlFlavour_quote(columns.next.name)
                      \o <<" ">> \o mssql_render_column_type(columns.next) \o <<" ">>
                      \o <<(IF is_required(columns.next.arity) THEN "NOT NULL" ELSE "NULL")>>)
      [] OTHER -> <<>>

\* An aborted rendering returns no statement list: it is the list <<Unreachable>>.
MssqlFlavour_render_alter_table(alter_table, schemas) ==
    LET tables == tables_of(schemas, alter_table.table_index)
        changes == alter_table.changes
        drop_constraints == Flatten(map(changes, LAMBDA ch : mssql_drop_constraints_of(ch, tables)))
        add_constraints == Flatten(map(changes, LAMBDA ch : mssql_add_constraints_of(ch, tables)))
        add_columns == Flatten(map(changes, LAMBDA ch : mssql_add_columns_of(ch, tables)))
        drop_columns == Flatten(map(changes, LAMBDA ch : mssql_drop_columns_of(ch, tables)))
        column_mods == Flatten(map(changes, LAMBDA ch : mssql_column_mods_of(ch, tables)))
        table == MssqlFlavour_quote_with_schema(tables.previous.name)
    IN IF any(drop_constraints, LAMBDA c : c = Unreachable) THEN <<Unreachable>>
       ELSE
         (IF drop_constraints # <<>>
          THEN << <<"ALTER TABLE ">> \o table \o <<" DROP CONSTRAINT ">>
                  \o join(drop_constraints, ",\n") >>
          ELSE <<>>)
         \o column_mods
         \o (IF add_constraints # <<>>
             THEN << <<"ALTER TABLE ">> \o table \o <<" ADD ">> \o join(add_constraints, ", ") >>
             ELSE <<>>)
         \o (IF drop_columns # <<>>
             THEN << <<"ALTER TABLE ">> \o table \o <<" DROP COLUMN ">>
                     \o join(drop_columns, ",\n") >>
             ELSE <<>>)
         \o (IF add_columns # <<>>
             THEN << <<"ALTER TABLE ">> \o table \o <<" ADD ">> \o join(add_columns, ",\n") >>
             ELSE <<>>)

(***************************************************************************)
(* Step applier and script renderer (sql_database_step_applier.rs)         *)
(***************************************************************************)
\* SqliteFlavour::render_alter_table: only AddColumn is possible on SQLite.
SqliteFlavour_render_alter_table(alter_table, schemas) ==
    LET tables == tables_of(schemas, alter_table.table_index)
    IN IF any(alter_table.changes, LAMBDA ch : ch.tag # "AddColumn") THEN <<Unreachable>>
       ELSE map(alter_table.changes, LAMBDA ch :
                  <<"ALTER TABLE ">> \o Quoted_Double(tables.previous.name) \o <<" ADD COLUMN ">>
                  \o ddl_sqlite_Column_fmt(
                        sqlite_render_column(tables.next, tables.next.columns[ch.column_index])))

\* The arms of the steps and flavours of this model; the other arms abort here.
render_raw_sql(step, flavour, schemas) ==
    CASE step.tag = "RedefineTables" /\ flavour = "sqlite" ->
            SqliteFlavour_render_redefine_tables(step.tables, schemas)
      [] step.tag = "RedefineTables" /\ flavour = "mssql" ->
            MssqlFlavour_render_redefine_tables(step.tables, schemas)
      [] step.tag = "CreateEnum" /\ flavour = "sqlite" -> SqliteFlavour_render_create_enum
      [] step.tag = "CreateEnum" /\ flavour = "mysql" -> MysqlFlavour_render_create_enum
      [] step.tag = "DropEnum" /\ flavour = "sqlite" -> SqliteFlavour_render_drop_enum
      [] step.tag = "DropEnum" /\ flavour = "mysql" -> MysqlFlavour_render_drop_enum
      [] step.tag = "CreateTable" /\ flavour = "sqlite" ->
            <<SqliteFlavour_render_create_table_as(schemas.next[step.table_index],
                                                   schemas.next[step.table_index].name)>>
      [] step.tag = "CreateTable" /\ flavour = "mssql" ->
            <<MssqlFlavour_render_create_table_as(schemas.next[step.table_index],
                                                  schemas.next[step.table_index].name)>>
      [] step.tag = "DropTable" /\ flavour = "sqlite" ->
            SqliteFlavour_render_drop_table(schemas.previous[step.table_index].name)
      [] step.tag = "DropTable" /\ flavour = "mssql" ->
            MssqlFlavour_render_drop_table(schemas.previous[step.table_index].name)
      [] step.tag = "AlterTable" /\ flavour = "sqlite" ->
            SqliteFlavour_render_alter_table(step.alter_table, schemas)
      [] step.tag = "AlterTable" /\ flavour = "mssql" ->
            MssqlFlavour_render_alter_table(step.alter_table, schemas)
      [] step.tag = "CreateIndex" /\ flavour = "sqlite" ->
            <<SqliteFlavour_render_create_index(
                 schemas.next[step.table_index],
                 schemas.next[step.table_index].indexes[step.index_index])>>
      [] step.tag = "CreateIndex" /\ flavour = "mssql" ->
            <<MssqlFlavour_render_create_index(
                 schemas.next[step.table_index],
                 schemas.next[step.table_index].indexes[step.index_index])>>
      [] OTHER -> <<Unreachable>>

\* SqlMigration::is_empty, SqlMigrationStep::description, has_warnings
is_empty(migration) == migration.steps = <<>>
description(step) == step.tag
has_warnings(diagnostics) == diagnostics.warnings # <<>>

script_header(diagnostics) ==
    IF has_warnings(diagnostics) \/ diagnostics.unexecutable_migrations # <<>>
    THEN <<"/*\n  Warnings:\n\n">>
         \o Flatten(map(diagnostics.warnings,
                        LAMBDA warning : <<"  - ", warning.description, "\n">>))
         \o Flatten(map(diagnostics.unexecutable_migrations,
                        LAMBDA unexecutable : <<"  - ", unexecutable.description, "\n">>))
         \o <<"\n*/\n">>
    ELSE <<>>

script_step(step, flavour, schemas) ==
    LET statements == render_raw_sql(step, flavour, schemas)
    IN IF statements # <<>>
       THEN <<"-- ", description(step), "\n">>
            \o Flatten(map(statements, LAMBDA statement : statement \o <<";\n">>))
       ELSE <<>>

\* Variant: the comment of a step is written whatever the step renders.
render_script_every_comment(migration, diagnostics) ==
    IF is_empty(migration) THEN <<"-- This is an empty migration.">>
    ELSE script_header(diagnostics)
         \o Flatten(map(migration.steps, LAMBDA step :
               <<"-- ", description(step), "\n">>
               \o Flatten(map(render_raw_sql(step, migration.flavour, migration.schemas),
                              LAMBDA statement : statement \o <<";\n">>))))

\* Variant: the warnings are written before the migration is found empty.
render_script_header_first(migration, diagnostics) ==
    script_header(diagnostics)
    \o (IF is_empty(migration) THEN <<"-- This is an empty migration.">>
        ELSE Flatten(map(migration.steps, LAMBDA step :
                script_step(step, migration.flavour, migration.schemas))))

render_script(migration, diagnostics) ==
    IF is_empty(migration) THEN <<"-- This is an empty migration.">>
    ELSE script_header(diagnostics)
         \o Flatten(map(migration.steps, LAMBDA step :
               script_step(step, migration.flavour, migration.schemas)))

\* apply_next_step: steps.get(index).is_some()
has_this_one(steps, i) == 1 <= i /\ i <= Len(steps)

Ok(value) == [tag |-> "Ok", value |-> value, cause |-> "", step_index |-> None,
              statement |-> None]

\* `?` converts the driver's error: the result holds the cause and nothing of
\* the step or the statement.
Err(cause) == [tag |-> "Err", value |-> FALSE, cause |-> cause, step_index |-> None,
               statement |-> None]

(***************************************************************************)
(* Inputs of the SQLite redefinition                                       *)
(***************************************************************************)
TableNames == <<"A", "B", "C", "D">>
ColumnNames == <<"a", "b", "c", "d">>
Arities == {"Required", "Nullable"}

NoDefault == None
IntDefault == Some(DefaultValue("VALUE", "Int", <<"1">>, None))
StringDefault == Some(DefaultValue("VALUE", "String", <<"o", "'", "k">>, None))
DbGeneratedDefault == Some(DefaultValue("DBGENERATED", "None", <<"rand()">>, None))
NowDefault == Some(DefaultValue("NOW", "None", <<>>, None))

\* (family, default) of a next column; NOW only on DateTime columns.
SqliteColumnKinds ==
    { <<"Int", NoDefault>>, <<"Int", IntDefault>>, <<"String", NoDefault>>,
      <<"String", StringDefault>>, <<"Int", DbGeneratedDefault>>,
      <<"DateTime", NowDefault>> }

\* A column pair: the previous arity, the next arity, the next (family, default).
ColumnPairSpecs ==
    [parity : Arities, narity : Arities, kind : SqliteColumnKinds]

\* The previous table has a dropped column in front of its paired columns and
\* the next table an added column after them, so that the two indexes of a
\* pair differ.
previous_table_of(name, specs) ==
    Table(name,
          <<Column("z", "Int", "Nullable", FALSE, None)>>
          \o [i \in 1..Len(specs) |->
                Column(ColumnNames[i], specs[i].kind[1], specs[i].parity, FALSE, None)],
          None, <<>>, <<>>)

next_table_of(name, specs, nidx) ==
    Table(name,
          [i \in 1..Len(specs) |->
             Column(ColumnNames[i], specs[i].kind[1], specs[i].narity, FALSE,
                    specs[i].kind[2])]
          \o <<Column("w", "Int", "Nullable", FALSE, None)>>,
          None,
          [k \in 1..nidx |->
             Index(name \o "_idx" \o ToString(k), <<"w">>,
                   IF k = 1 THEN "Unique" ELSE "Normal")],
          <<>>)

\* The differ records Arity in the changes exactly when the arities differ.
column_pairs_of(specs) ==
    [i \in 1..Len(specs) |->
       [column_index |-> Pair(i + 1, i),
        changes |-> IF specs[i].parity # specs[i].narity THEN {"Arity"} ELSE {},
        type_change |-> None]]

\* shapes: one [specs, nidx] per redefined table, table k at position k.
redefine_input_of(shapes) ==
    [schemas |-> Pair([k \in 1..Len(shapes) |->
                         previous_table_of(TableNames[k], shapes[k].specs)],
                      [k \in 1..Len(shapes) |->
                         next_table_of(TableNames[k], shapes[k].specs, shapes[k].nidx)]),
     tables |-> [k \in 1..Len(shapes) |->
                   [table_index |-> Pair(k, k),
                    column_pairs |-> column_pairs_of(shapes[k].specs)]]]

\* For the sequence of statements: few column kinds, several tables.
SequenceSpec == [parity |-> "Nullable", narity |-> "Required", kind |-> <<"Int", IntDefault>>]
SequenceShapes ==
    [specs : SeqUpTo({SequenceSpec}, MaxColumnPairs), nidx : 0..2]
SqliteRedefineInputs ==
    {redefine_input_of(shapes) : shapes \in SeqUpTo(SequenceShapes, MaxRedefine)}

\* For the copy statement: one table, every kind of column pair.
SqliteCopyInputs ==
    {redefine_input_of(<<[specs |-> specs, nidx |-> 0]>>) :
        specs \in SeqUpTo(ColumnPairSpecs, MaxColumnPairs)}

(***************************************************************************)
(* Specifications of the renderers: the input is drawn, then rendered      *)
(***************************************************************************)
Idle == /\ index = 0 /\ pos = 0 /\ executed = <<>> /\ result = <<>>

InitSqliteRedefine ==
    /\ pc = "sqlite_redefine"
    /\ input \in SqliteRedefineInputs
    /\ output = <<>>
    /\ Idle

InitSqliteCopy ==
    /\ pc = "sqlite_redefine"
    /\ input \in SqliteCopyInputs
    /\ output = <<>>
    /\ Idle

RenderRedefineTablesSqlite ==
    /\ pc = "sqlite_redefine"
    /\ output' = SqliteFlavour_render_redefine_tables(input.tables, input.schemas)
    /\ pc' = "rendered"
    /\ UNCHANGED <<input, index, pos, executed, result>>

SpecSqliteRedefine == InitSqliteRedefine /\ [][RenderRedefineTablesSqlite]_vars
SpecSqliteCopy == InitSqliteCopy /\ [][RenderRedefineTablesSqlite]_vars

(***************************************************************************)
(* C6  SQLite redefinition: order of the statements                        *)
(***************************************************************************)
\* What a SQLite statement does: <<kind, object, second object>>.
sqlite_abs(s) ==
    CASE s[1] = "CREATE TABLE " -> <<"create", s[3], "">>
      [] s[1] = "INSERT INTO " -> <<"copy", s[3], s[Len(s) - 1]>>
      [] s[1] = "DROP TABLE " -> <<"drop", s[3], "">>
      [] s[1] = "ALTER TABLE " /\ s[5] = " RENAME TO " -> <<"rename", s[3], s[7]>>
      [] s[1] = "CREATE " /\ s[3] = "INDEX " -> <<"index", s[5], s[9]>>
      [] OTHER -> <<s[1], "", "">>

C6_table_statements(rt, schemas, with_copy) ==
    LET prev == schemas.previous[rt.table_index.previous]
        next == schemas.next[rt.table_index.next]
        new == "new_" \o next.name
    IN << <<"create", new, "">> >>
       \o (IF with_copy THEN << <<"copy", new, prev.name>> >> ELSE <<>>)
       \o << <<"drop", prev.name, "">>, <<"rename", new, next.name>> >>
       \o [k \in 1..Len(next.indexes) |-> <<"index", next.indexes[k].name, next.name>>]

C6_expected(always_copy) ==
    << <<"PRAGMA foreign_keys=OFF", "", "">> >>
    \o Flatten([k \in 1..Len(input.tables) |->
                  C6_table_statements(input.tables[k], input.schemas,
                                      always_copy \/ input.tables[k].column_pairs # <<>>)])
    \o << <<"PRAGMA foreign_key_check", "", "">>, <<"PRAGMA foreign_keys=ON", "", "">> >>

\* C6 as claimed: PRAGMA foreign_keys=OFF, then per table in list order create
\* new_<name>, copy, drop, rename, create the indexes, then foreign_key_check and
\* PRAGMA foreign_keys=ON; every table has its copy statement.
C6_AsClaimed ==
    pc = "rendered" => map(output, sqlite_abs) = C6_expected(TRUE)

\* C6 amended: the same sequence, where the copy statement of a table is present
\* exactly when the table has at least one column pair; when present it comes
\* after the creation of new_<name> and before the drop of the old table.
C6_RedefineOrder ==
    pc = "rendered" => map(output, sqlite_abs) = C6_expected(FALSE)

C6_Witness ==
    /\ pc = "rendered"
    /\ Len(input.tables) = 2
    /\ input.tables[1].column_pairs = <<>>
    /\ input.tables[2].column_pairs # <<>>
    /\ Len(input.schemas.next[2].indexes) = 2

(***************************************************************************)
(* C7  SQLite copy statement: destination and source columns               *)
(***************************************************************************)
C7_source(prev, next) ==
    IF prev.arity # next.arity /\ next.arity = "Required" /\ next.default # None
    THEN <<"coalesce(", "\"", prev.name, "\"", ", ">>
         \o sqlite_render_default(next.default[1], next.family)
         \o <<") AS ", "\"", prev.name, "\"">>
    ELSE <<"\"", prev.name, "\"">>

C7_copy_of(rt, schemas) ==
    LET prev == schemas.previous[rt.table_index.previous]
        next == schemas.next[rt.table_index.next]
        n == Len(rt.column_pairs)
    IN <<"INSERT INTO ", "\"", "new_" \o next.name, "\"", " (">>
       \o join([i \in 1..n |-> <<"\"", next.columns[rt.column_pairs[i].column_index.next].name, "\"">>], ", ")
       \o <<") SELECT ">>
       \o join([i \in 1..n |->
                  C7_source(prev.columns[rt.column_pairs[i].column_index.previous],
                            next.columns[rt.column_pairs[i].column_index.next])], ", ")
       \o <<" FROM ", "\"", prev.name, "\"">>

\* C7: the copy statement lists the next-schema names of the column pairs in
\* pair order as destination, and the source of a pair is coalesce(previous
\* column, rendered default) exactly when the arity changed, the next column is
\* required and has a default; otherwise the previous column alone.
C7_CopyColumns ==
    (pc = "rendered" /\ Len(input.tables) = 1 /\ input.tables[1].column_pairs # <<>>)
       => output[3] = C7_copy_of(input.tables[1], input.schemas)

C7_Witness ==
    /\ pc = "rendered"
    /\ Len(input.tables) = 1
    /\ Len(input.tables[1].column_pairs) = 2
    /\ input.tables[1].column_pairs[1].changes = {"Arity"}
    /\ input.schemas.next[1].columns[1].arity = "Required"
    /\ input.schemas.next[1].columns[1].default = StringDefault
    /\ input.tables[1].column_pairs[2].changes = {}
    /\ input.schemas.next[1].columns[2].default = IntDefault
    /\ output[3][1] = "INSERT INTO "

(***************************************************************************)
(* Inputs of the MSSQL redefinition                                        *)
(***************************************************************************)
\* A redefined table: the auto-increment flag of each paired column in the
\* next table (the previous column has the opposite flag, the toggle that
\* makes MSSQL redefine the table), the indexes of the previous and of the next
\* table, and whether table R has a foreign key to it.
MssqlColumnShapes == {<<>>, <<FALSE>>, <<TRUE>>, <<FALSE, TRUE>>}
MssqlIndexShapes == {<<0, 0>>, <<1, 2>>, <<2, 1>>}
MssqlShapes == [autos : MssqlColumnShapes, idx : MssqlIndexShapes, fk : BOOLEAN]

mssql_indexes_of(name, n, column) ==
    [k \in 1..n |-> IF k = 1 THEN Index(name \o "_idx", <<column>>, "Normal")
                    ELSE Index(name \o ".u", <<column>>, "Unique")]

mssql_previous_table_of(name, shape) ==
    Table(name,
          <<Column("z", "Int", "Nullable", FALSE, None)>>
          \o [i \in 1..Len(shape.autos) |->
                Column(ColumnNames[i], "Int", "Required", ~shape.autos[i], None)],
          None, mssql_indexes_of(name, shape.idx[1], "z"), <<>>)

mssql_next_table_of(name, shape) ==
    Table(name,
          [i \in 1..Len(shape.autos) |->
             Column(ColumnNames[i], "Int", "Required", shape.autos[i], None)]
          \o <<Column("w", "Int", "Nullable", FALSE, None)>>,
          None, mssql_indexes_of(name, shape.idx[2], "w"), <<>>)

\* Table R references every table whose shape asks for it.
referencing_table_of(shapes, side) ==
    LET ks == SelectSeq([k \in 1..Len(shapes) |-> k], LAMBDA k : shapes[k].fk)
    IN Table("R",
             <<Column("id", "Int", "Required", FALSE, None)>>
             \o [j \in 1..Len(ks) |->
                   Column("to_" \o TableNames[ks[j]], "Int", "Nullable", FALSE, None)],
             None, <<>>,
             [j \in 1..Len(ks) |->
                ForeignKey(Some("R_" \o TableNames[ks[j]] \o "_fkey"),
                           <<"to_" \o TableNames[ks[j]]>>, TableNames[ks[j]],
                           <<IF shapes[ks[j]].autos # <<>> THEN "a"
                             ELSE IF side = "previous" THEN "z" ELSE "w">>,
                           "Cascade", "NoAction")])

mssql_redefine_input_of(shapes) ==
    [schemas |-> Pair([k \in 1..Len(shapes) |->
                         mssql_previous_table_of(TableNames[k], shapes[k])]
                      \o <<referencing_table_of(shapes, "previous")>>,
                      [k \in 1..Len(shapes) |->
                         mssql_next_table_of(TableNames[k], shapes[k])]
                      \o <<referencing_table_of(shapes, "next")>>),
     tables |-> [k \in 1..Len(shapes) |->
                   [table_index |-> Pair(k, k),
                    column_pairs |->
                       [i \in 1..Len(shapes[k].autos) |->
                          [column_index |-> Pair(i + 1, i), changes |-> {"Sequence"},
                           type_change |-> None]]]]]

MssqlRedefineInputs ==
    {mssql_redefine_input_of(shapes) : shapes \in SeqUpTo(MssqlShapes, MaxRedefine)}

InitMssqlRedefine ==
    /\ pc = "mssql_redefine"
    /\ input \in MssqlRedefineInputs
    /\ output = <<>>
    /\ Idle

RenderRedefineTablesMssql ==
    /\ pc = "mssql_redefine"
    /\ output' = MssqlFlavour_render_redefine_tables(input.tables, input.schemas)
    /\ pc' = "rendered"
    /\ UNCHANGED <<input, index, pos, executed, result>>

SpecMssqlRedefine == InitMssqlRedefine /\ [][RenderRedefineTablesMssql]_vars

(***************************************************************************)
(* C8  MSSQL redefinition: order of the statements                         *)
(***************************************************************************)
\* What an MSSQL statement does: <<kind, object, second object>>.
mssql_abs(s) ==
    CASE s[1] = "ALTER TABLE " /\ s[9] = " DROP CONSTRAINT " -> <<"drop_constraint", s[7], s[11]>>
      [] s[1] = "DROP INDEX " -> <<"drop_index", s[11], s[3]>>
      [] s[1] = "CREATE TABLE " -> <<"create", s[7], "">>
      [] s[1] = "SET IDENTITY_INSERT " -> <<"identity", s[7], s[9]>>
      [] s[1] = "IF EXISTS(SELECT * FROM " -> <<"copy", s[15], s[7]>>
      [] s[1] = "DROP TABLE " -> <<"drop", s[7], "">>
      [] s[1] = "EXEC SP_RENAME N" -> <<"rename", s[5], s[9]>>
      [] s[1] = "ALTER TABLE " /\ s[9] = " ADD " /\ s[10] = "CONSTRAINT " -> <<"add_fk", s[7], s[12]>>
      [] s[1] = "CREATE " /\ s[3] = "INDEX " -> <<"index", s[13], "">>
      [] Len(s) = 5 /\ s[5] = "' EXEC sp_executesql @SQL" -> <<"drop_all_constraints", s[2], s[4]>>
      [] OTHER -> <<s[1], "", "">>

\* The named foreign keys of the other tables of a schema that point to table t.
C8_referencing(schema, t) ==
    LET from(o) == SelectSeq(schema[o].foreign_keys,
                             LAMBDA fk : o # t /\ fk.referenced_table = schema[t].name)
    IN Flatten([o \in 1..Len(schema) |->
                  [j \in 1..Len(from(o)) |-> <<schema[o].name, from(o)[j].constraint_name[1]>>]])

C8_table_statements(rt, schemas) ==
    LET prev == schemas.previous[rt.table_index.previous]
        next == schemas.next[rt.table_index.next]
        tmp == "_prisma_new_" \o next.name
        dropped == C8_referencing(schemas.previous, rt.table_index.previous)
        added == C8_referencing(schemas.next, rt.table_index.next)
    IN [j \in 1..Len(dropped) |-> <<"drop_constraint", dropped[j][1], dropped[j][2]>>]
       \o [k \in 1..Len(prev.indexes) |->
             IF prev.indexes[k].tpe = "Unique"
             THEN <<"drop_constraint", prev.name, prev.indexes[k].name>>
             ELSE <<"drop_index", prev.name, prev.indexes[k].name>>]
       \o << <<"drop_all_constraints", prev.name, "dbo">>,
             <<"create", tmp, "">>,
             <<"copy", tmp, prev.name>>,
             <<"drop", prev.name, "">>,
             <<"rename", tmp, next.name>> >>
       \o [j \in 1..Len(added) |-> <<"add_fk", added[j][1], added[j][2]>>]
       \o [k \in 1..Len(next.indexes) |-> <<"index", next.name, "">>]

C8_not_identity(a) == a[1] # "identity"

\* C8: the sequence starts with BEGIN TRANSACTION and ends with COMMIT, and for
\* each table, in list order: drops of the referencing foreign keys, drops of
\* the table's indexes, the dynamic constraint drop, CREATE TABLE
\* _prisma_new_<name>, the copy, DROP of the old table, the rename, the
\* referencing foreign keys again, CREATE INDEX for the next table's indexes
\* (the IDENTITY_INSERT toggles aside).
C8_MssqlRedefineOrder ==
    pc = "rendered" =>
        SelectSeq(map(output, mssql_abs), C8_not_identity)
          = << <<"BEGIN TRANSACTION", "", "">> >>
            \o Flatten([k \in 1..Len(input.tables) |->
                          C8_table_statements(input.tables[k], input.schemas)])
            \o << <<"COMMIT", "", "">> >>

C8_Witness ==
    /\ pc = "rendered"
    /\ Len(input.tables) = 2
    /\ Len(input.schemas.previous[3].foreign_keys) = 2
    /\ Len(input.schemas.previous[1].indexes) = 2
    /\ Len(input.schemas.next[2].indexes) = 2
    /\ \E i, j \in 1..Len(output) :
          /\ i < j
          /\ mssql_abs(output[i])[1] = "drop_all_constraints"
          /\ mssql_abs(output[j]) = <<"create", "_prisma_new_A", "">>

(***************************************************************************)
(* C9  MSSQL redefinition: IDENTITY_INSERT around the copy                 *)
(***************************************************************************)
\* The redefined table whose temporary table is tmp.
C9_table_of(tmp) ==
    CHOOSE k \in 1..Len(input.tables) :
        "_prisma_new_" \o input.schemas.next[input.tables[k].table_index.next].name = tmp

\* At least one copied column is auto-increment in the next schema.
C9_needs(k) ==
    \E i \in 1..Len(input.tables[k].column_pairs) :
        input.schemas.next[input.tables[k].table_index.next]
            .columns[input.tables[k].column_pairs[i].column_index.next].auto_increment

\* C9: SET IDENTITY_INSERT <temporary table> ON comes immediately before the
\* copy and OFF immediately after it, exactly when a copied column is
\* auto-increment in the next schema; the OFF comes before the drop of the old
\* table; no other IDENTITY_INSERT statement is rendered.
C9_IdentityInsert ==
    pc = "rendered" =>
      LET a == map(output, mssql_abs)
      IN \A i \in 1..Len(a) :
           /\ a[i][1] = "copy" =>
                IF C9_needs(C9_table_of(a[i][2]))
                THEN /\ a[i - 1] = <<"identity", a[i][2], " ON">>
                     /\ a[i + 1] = <<"identity", a[i][2], " OFF">>
                     /\ a[i + 2][1] = "drop"
                ELSE /\ a[i - 1][1] # "identity"
                     /\ a[i + 1][1] # "identity"
           /\ a[i][1] = "identity" =>
                \/ a[i][3] = " ON" /\ a[i + 1] = <<"copy", a[i][2], a[i + 1][3]>>
                \/ a[i][3] = " OFF" /\ a[i - 1] = <<"copy", a[i][2], a[i - 1][3]>>

C9_Witness ==
    /\ pc = "rendered"
    /\ Len(input.tables) = 2
    /\ C9_needs(1)
    /\ ~C9_needs(2)
    /\ input.tables[2].column_pairs # <<>>
    /\ \E i \in 1..Len(output) : mssql_abs(output[i]) = <<"identity", "_prisma_new_A", " OFF">>

(***************************************************************************)
(* Inputs of the MSSQL AlterTable: table Cat(id, n, old) -> Cat(id, n, new) *)
(***************************************************************************)
NamedDefault0 == Some(DefaultValue("VALUE", "Int", <<"0">>, Some("DF__Cat__n")))
Default0 == Some(DefaultValue("VALUE", "Int", <<"0">>, None))
Default1 == Some(DefaultValue("VALUE", "Int", <<"1">>, None))

default_value_of(d) == IF is_some(d) THEN <<d[1].kind, d[1].val>> ELSE <<>>

\* Column n before and after; the differ records a change atom exactly for
\* what differs between the two columns.
AlterColumnShapes ==
    { sh \in [pdef : {None, NamedDefault0}, ndef : {None, Default0, Default1},
              parity : Arities, narity : Arities, nfamily : {"Int", "BigInt"}] :
        \/ default_value_of(sh.pdef) # default_value_of(sh.ndef)
        \/ sh.parity # sh.narity
        \/ sh.nfamily # "Int" }

column_changes_of(sh) ==
    (IF default_value_of(sh.pdef) # default_value_of(sh.ndef) THEN {"Default"} ELSE {})
    \cup (IF sh.parity # sh.narity THEN {"Arity"} ELSE {})
    \cup (IF sh.nfamily # "Int" THEN {"TypeChanged"} ELSE {})

type_change_of(sh) == IF sh.nfamily # "Int" THEN Some("SafeCast") ELSE None

alter_table_input_of(sh, extras) ==
    [schemas |->
        Pair(<<Table("Cat",
                     <<Column("id", "Int", "Required", FALSE, None),
                       Column("n", "Int", sh.parity, FALSE, sh.pdef),
                       Column("old", "String", "Nullable", FALSE, None)>>,
                     None, <<>>, <<>>)>>,
             <<Table("Cat",
                     <<Column("id", "Int", "Required", FALSE, None),
                       Column("new", "String", "Nullable", FALSE, None),
                       Column("n", sh.nfamily, sh.narity, FALSE, sh.ndef)>>,
                     None, <<>>, <<>>)>>),
     alter_table |->
        [table_index |-> Pair(1, 1),
         changes |->
            (IF "DropColumn" \in extras THEN <<[tag |-> "DropColumn", index |-> 3]>> ELSE <<>>)
            \o <<[tag |-> "AlterColumn", column_index |-> Pair(2, 3),
                  changes |-> column_changes_of(sh), type_change |-> type_change_of(sh)]>>
            \o (IF "AddColumn" \in extras THEN <<[tag |-> "AddColumn", column_index |-> 2]>>
                ELSE <<>>)]]

MssqlAlterTableInputs ==
    {alter_table_input_of(sh, extras) :
        sh \in AlterColumnShapes, extras \in SUBSET {"DropColumn", "AddColumn"}}

InitMssqlAlterTable ==
    /\ pc = "mssql_alter_table"
    /\ input \in MssqlAlterTableInputs
    /\ output = <<>>
    /\ Idle

RenderAlterTableMssql ==
    /\ pc = "mssql_alter_table"
    /\ output' = MssqlFlavour_render_alter_table(input.alter_table, input.schemas)
    /\ pc' = "rendered"
    /\ UNCHANGED <<input, index, pos, executed, result>>

SpecMssqlAlterTable == InitMssqlAlterTable /\ [][RenderAlterTableMssql]_vars

(***************************************************************************)
(* C10  MSSQL AlterColumn with a default change                            *)
(***************************************************************************)
\* The AlterTable holds the one AlterColumn, its changes include Default and the
\* previous default is a named constraint.
C10_case ==
    /\ Len(input.alter_table.changes) = 1
    /\ "Default" \in input.alter_table.changes[1].changes
    /\ input.schemas.previous[1].columns[2].default = NamedDefault0

C10_modify ==
    "ALTER TABLE [dbo].[Cat] ALTER COLUMN [n] "
    \o (IF input.schemas.next[1].columns[3].family = "Int" THEN "int" ELSE "bigint")
    \o (IF input.schemas.next[1].columns[3].arity = "Required" THEN " NOT NULL" ELSE " NULL")

C10_expected(drop) ==
    <<drop>>
    \o (IF input.alter_table.changes[1].changes # {"Default"} THEN <<C10_modify>> ELSE <<>>)
    \o (IF input.schemas.next[1].columns[3].default # None
        THEN <<"ALTER TABLE [dbo].[Cat] ADD CONSTRAINT DF__Cat__n DEFAULT "
               \o str(input.schemas.next[1].columns[3].default[1].val) \o " FOR n">>
        ELSE <<>>)

\* C10: the statements are the DROP CONSTRAINT of the previous default's
\* constraint, bracket-quoted, on [dbo].[Cat]; then the ALTER COLUMN when
\* something other than the default changed; then the ADD CONSTRAINT ... DEFAULT
\* when the next column has a default.  DEFAULT 0 -> DEFAULT 1 renders
\* `ALTER TABLE [dbo].[Cat] DROP CONSTRAINT [DF__Cat__n]` and
\* `ALTER TABLE [dbo].[Cat] ADD CONSTRAINT DF__Cat__n DEFAULT 1 FOR n`.
C10_DefaultChange ==
    (pc = "rendered" /\ C10_case) =>
        map(output, str) = C10_expected("ALTER TABLE [dbo].[Cat] DROP CONSTRAINT [DF__Cat__n]")

\* What the renderer does instead: the constraint name is not quoted.
C10_Unquoted ==
    (pc = "rendered" /\ C10_case) =>
        map(output, str) = C10_expected("ALTER TABLE [dbo].[Cat] DROP CONSTRAINT DF__Cat__n")

(***************************************************************************)
(* Migrations given to the applier and to the script renderer              *)
(***************************************************************************)
\* Two SQLite tables; A keeps no column, B keeps one and has two indexes.
MigrationTables ==
    redefine_input_of(<< [specs |-> <<>>, nidx |-> 0],
                         [specs |-> <<SequenceSpec>>, nidx |-> 2] >>)

\* Steps that render no statement (CreateEnum), one, three and many.
MigrationSteps ==
    { [tag |-> "CreateEnum", enum_index |-> 1],
      [tag |-> "DropTable", table_index |-> 1],
      [tag |-> "CreateIndex", table_index |-> 2, index_index |-> 1],
      [tag |-> "AlterTable",
       alter_table |-> [table_index |-> Pair(1, 1),
                        changes |-> <<[tag |-> "AddColumn", column_index |-> 1]>>]],
      [tag |-> "RedefineTables", tables |-> <<MigrationTables.tables[2]>>] }

\* On MySQL the enum steps render nothing.
EnumSteps ==
    { [tag |-> "CreateEnum", enum_index |-> 1], [tag |-> "DropEnum", enum_index |-> 1] }

Migrations ==
    { [flavour |-> "sqlite", schemas |-> MigrationTables.schemas, steps |-> steps] :
        steps \in SeqUpTo(MigrationSteps, MaxSteps) }
    \cup
    { [flavour |-> "mysql", schemas |-> Pair(<<>>, <<>>), steps |-> steps] :
        steps \in SeqUpTo(EnumSteps, MaxSteps) }

(***************************************************************************)
(* The applier: apply_step(migration, index) called by the caller for      *)
(* index, index + 1, ... while it returns true.  raw_cmd suspends on the   *)
(* database, which executes the statement or fails it.                     *)
(***************************************************************************)
Init ==
    /\ pc = "caller"
    /\ \E migration \in Migrations, start \in 1..(MaxSteps + 2) :
          /\ start <= Len(migration.steps) + 2
          /\ input = [migration |-> migration, start |-> start]
          /\ index = start
    /\ pos = 0
    /\ output = <<>>
    /\ executed = <<>>
    /\ result = [tag |-> "None"]

\* Variant: the last step is taken for absent.
ApplyStepCall_off_by_one ==
    /\ pc = "caller"
    /\ IF index < Len(input.migration.steps)
       THEN /\ output' = render_raw_sql(input.migration.steps[index], input.migration.flavour,
                                        input.migration.schemas)
            /\ pos' = 1
            /\ pc' = "loop"
            /\ UNCHANGED result
       ELSE /\ result' = Ok(FALSE)
            /\ pc' = "done"
            /\ UNCHANGED <<output, pos>>
    /\ UNCHANGED <<input, index, executed>>

\* apply_step entered: no such step, or the step is rendered and the loop starts.
ApplyStepCall ==
    /\ pc = "caller"
    /\ IF has_this_one(input.migration.steps, index)
       THEN /\ output' = render_raw_sql(input.migration.steps[index], input.migration.flavour,
                                        input.migration.schemas)
            /\ pos' = 1
            /\ pc' = "loop"
            /\ UNCHANGED result
       ELSE /\ result' = Ok(FALSE)
            /\ pc' = "done"
            /\ UNCHANGED <<output, pos>>
    /\ UNCHANGED <<input, index, executed>>

\* raw_cmd(sql_string) succeeds: the database has executed the statement.
RawCmdOk ==
    /\ pc = "loop"
    /\ pos <= Len(output)
    /\ executed' = Append(executed, [index |-> index, sql |-> output[pos]])
    /\ pos' = pos + 1
    /\ UNCHANGED <<pc, input, output, index, result>>

\* Variant: the statements of the step are undone when one fails.
RawCmdErr_rollback ==
    /\ pc = "loop"
    /\ pos <= Len(output)
    /\ result' = Err("driver")
    /\ executed' = SelectSeq(executed, LAMBDA e : e.index # index)
    /\ pc' = "failed"
    /\ UNCHANGED <<input, output, index, pos>>

\* raw_cmd(sql_string) fails: `?` returns the error to the caller.
RawCmdErr ==
    /\ pc = "loop"
    /\ pos <= Len(output)
    /\ result' = Err("driver")
    /\ pc' = "failed"
    /\ UNCHANGED <<input, output, index, pos, executed>>

\* The loop is over: Ok(true).
ApplyStepReturn ==
    /\ pc = "loop"
    /\ pos > Len(output)
    /\ result' = Ok(TRUE)
    /\ pc' = "returned"
    /\ UNCHANGED <<input, output, index, pos, executed>>

\* The caller goes on with the next index.
CallerNext ==
    /\ pc = "returned"
    /\ result = Ok(TRUE)
    /\ index' = index + 1
    /\ pc' = "caller"
    /\ UNCHANGED <<input, output, pos, executed, result>>

Next ==
    \/ ApplyStepCall
    \/ RawCmdOk
    \/ RawCmdErr
    \/ ApplyStepReturn
    \/ CallerNext

Spec == Init /\ [][Next]_vars

(***************************************************************************)
(* C1  every statement once, in order                                      *)
(***************************************************************************)
\* The statements of step k, tagged with k, in rendered order.
C1_statements_of(k) ==
    LET stmts == render_raw_sql(input.migration.steps[k], input.migration.flavour,
                                input.migration.schemas)
    IN [j \in 1..Len(stmts) |-> [index |-> k, sql |-> stmts[j]]]

\* The statements of steps from..to-1.
RECURSIVE C1_statements(_, _)
C1_statements(from, to) ==
    IF from >= to \/ from > Len(input.migration.steps) THEN <<>>
    ELSE C1_statements_of(from) \o C1_statements(from + 1, to)

\* C1: when apply_step has returned false, the database has executed every
\* statement of every step from the first index on, once, in step order and in
\* rendered order; with a first index past the last step it has executed
\* nothing.  Until then it has executed a prefix of them.
C1_AllInOrder ==
    /\ pc = "done" =>
          /\ result = Ok(FALSE)
          /\ index > Len(input.migration.steps)
          /\ executed = C1_statements(input.start, Len(input.migration.steps) + 1)
          /\ input.start > Len(input.migration.steps) => executed = <<>>
    /\ pc \in {"caller", "loop", "returned"} =>
          executed = SubSeq(C1_statements(input.start, Len(input.migration.steps) + 1),
                            1, Len(executed))

C1_Witness ==
    /\ pc = "done"
    /\ input.start = 1
    /\ Len(input.migration.steps) = 2
    /\ input.migration.steps[1].tag = "DropTable"
    /\ input.migration.steps[2].tag = "RedefineTables"
    /\ Len(executed) = 12

(***************************************************************************)
(* C2  a failing statement stops the step, nothing is rolled back          *)
(***************************************************************************)
\* C2: when a statement fails, apply_step returns the failure, and the database
\* holds exactly the statements executed before it: those of the steps applied
\* before and the statements of this step that precede the failing one.
C2_FailureStops ==
    pc = "failed" =>
       /\ result.tag = "Err"
       /\ result.cause = "driver"
       /\ executed = C1_statements(input.start, index)
                     \o SubSeq(C1_statements_of(index), 1, pos - 1)
       /\ pos <= Len(output)

\* C2: once apply_step has failed, no statement is executed any more.
C2_NothingAfterFailure == [][pc = "failed" => executed' = executed /\ pc' = "failed"]_vars

C2_Witness ==
    /\ pc = "failed"
    /\ index = 2
    /\ pos = 3
    /\ Len(output) > 3
    /\ Len(executed) > 2

(***************************************************************************)
(* C3  what the error carries                                              *)
(***************************************************************************)
\* C3: the error returned when a statement fails carries the index of the step
\* being applied and the text of the failing statement, with the driver cause.
C3_ErrorCarriesStep ==
    pc = "failed" =>
       /\ result.cause = "driver"
       /\ result.step_index = Some(index)
       /\ result.statement = Some(output[pos])

(***************************************************************************)
(* render_script                                                           *)
(***************************************************************************)
Warnings == { [description |-> d, step_index |-> 1] : d \in {"w1", "w2"} }
Unexecutables == { [description |-> d, step_index |-> 1] : d \in {"u1"} }

DiagnosticsSet ==
    [warnings : SeqUpTo(Warnings, MaxDiagnostics),
     unexecutable_migrations : SeqUpTo(Unexecutables, MaxDiagnostics - 1)]

InitScript ==
    /\ pc = "render_script"
    /\ input \in [migration : Migrations, diagnostics : DiagnosticsSet]
    /\ output = <<>>
    /\ Idle

RenderScript ==
    /\ pc = "render_script"
    /\ output' = render_script(input.migration, input.diagnostics)
    /\ pc' = "rendered"
    /\ UNCHANGED <<input, index, pos, executed, result>>

SpecScript == InitScript /\ [][RenderScript]_vars

(***************************************************************************)
(* C4  the script of a non-empty migration                                 *)
(***************************************************************************)
concat(strings) == str(strings)

C4_header ==
    IF input.diagnostics.warnings = <<>> /\ input.diagnostics.unexecutable_migrations = <<>>
    THEN ""
    ELSE "/*\n  Warnings:\n\n"
         \o concat([i \in 1..Len(input.diagnostics.warnings) |->
                      "  - " \o input.diagnostics.warnings[i].description \o "\n"])
         \o concat([i \in 1..Len(input.diagnostics.unexecutable_migrations) |->
                      "  - " \o input.diagnostics.unexecutable_migrations[i].description \o "\n"])
         \o "\n*/\n"

C4_step(step) ==
    LET stmts == render_raw_sql(step, input.migration.flavour, input.migration.schemas)
    IN IF stmts = <<>> THEN ""
       ELSE "-- " \o step.tag \o "\n"
            \o concat([j \in 1..Len(stmts) |-> str(stmts[j]) \o ";\n"])

\* C4: for a non-empty migration the script is the comment block of the
\* warnings then the unexecutables (present exactly when there is one), then
\* per step, in order, the `-- <description>` line and the statements of the
\* step each followed by `;`; a step comment always has a statement after it.
C4_Script ==
    (pc = "rendered" /\ input.migration.steps # <<>>) =>
       /\ str(output)
            = C4_header \o concat([k \in 1..Len(input.migration.steps) |->
                                     C4_step(input.migration.steps[k])])
       /\ \A i \in 1..Len(output) :
             output[i] = "-- " => (i + 3 <= Len(output) /\ output[i + 3] # "-- ")

C4_Witness ==
    /\ pc = "rendered"
    /\ Len(input.migration.steps) = 2
    /\ input.migration.steps[1].tag = "CreateEnum"
    /\ input.migration.steps[2].tag = "DropTable"
    /\ Len(input.diagnostics.warnings) = 2
    /\ Len(input.diagnostics.unexecutable_migrations) = 1
    /\ output[1] = "/*\n  Warnings:\n\n"

(***************************************************************************)
(* C5  the script of an empty migration                                    *)
(***************************************************************************)
\* C5: the script of an empty migration is the one line
\* `-- This is an empty migration.`, whatever the diagnostics.
C5_EmptyMigration ==
    (pc = "rendered" /\ input.migration.steps = <<>>) =>
        str(output) = "-- This is an empty migration."

C5_Witness ==
    /\ pc = "rendered"
    /\ input.migration.steps = <<>>
    /\ input.diagnostics.warnings # <<>>
    /\ input.diagnostics.unexecutable_migrations # <<>>

(***************************************************************************)
(* PostgreSQL renderer (sql_renderer/postgres_renderer.rs)                 *)
(***************************************************************************)
\* A PostgreSQL schema is [tables, enums]; a column of family Enum(name) has
\* family "Enum" and the name in enum_name.
Enum(name, values) == [name |-> name, values |-> values]

PgColumn(name, family, enum_name, arity, auto, default) ==
    [name |-> name, family |-> family, enum_name |-> enum_name, full_data_type |-> <<>>,
     arity |-> arity, auto_increment |-> auto, default |-> default]

Quoted_postgres_ident(name) == <<"\"", name, "\"">>
Quoted_postgres_string(s) == <<"'", s, "'">>

PostgresFlavour_quote(name) == Quoted_postgres_ident(name)
PostgresFlavour_schema_name == "public"

\* Every column of every table, with the name of its table.
walk_columns(schema) ==
    Flatten(map(schema.tables, LAMBDA table :
        map(table.columns, LAMBDA column : [table |-> table.name, column |-> column])))

\* The enum pair of a schema pair.
enums_of(schemas, enum_index) ==
    Pair(schemas.previous.enums[enum_index.previous], schemas.next.enums[enum_index.next])

\* Variant: the old type is dropped before the new one takes its name.
PostgresFlavour_render_alter_enum_drop_early(alter_enum, schemas) ==
    LET enums == enums_of(schemas, alter_enum.index)
        tmp_name == enums.next.name \o "_new"
        tmp_old_name == enums.previous.name \o "_old"
        affected_columns ==
            filter(walk_columns(schemas.next),
                   LAMBDA c : c.column.family = "Enum" /\ c.column.enum_name = enums.next.name)
    IN IF alter_enum.dropped_variants = <<>>
       THEN map(alter_enum.created_variants, LAMBDA created_value :
                   <<"ALTER TYPE ">> \o Quoted_postgres_ident(enums.previous.name)
                   \o <<" ADD VALUE ">> \o Quoted_postgres_string(created_value))
       ELSE << <<"BEGIN">> >>
            \o << <<"CREATE TYPE ">> \o Quoted_postgres_ident(tmp_name) \o <<" AS ENUM (">>
                  \o join(map(enums.next.values, Quoted_postgres_string), ", ") \o <<")">> >>
            \o map(affected_columns, LAMBDA c :
                   <<"ALTER TABLE ">> \o Quoted_postgres_ident(PostgresFlavour_schema_name)
                   \o <<".">> \o Quoted_postgres_ident(c.table)
                   \o <<" ALTER COLUMN ">> \o Quoted_postgres_ident(c.column.name)
                   \o <<" TYPE ">> \o Quoted_postgres_ident(tmp_name)
                   \o <<" USING (">> \o Quoted_postgres_ident(c.column.name)
                   \o <<"::text::">> \o Quoted_postgres_ident(tmp_name) \o <<")">>)
            \o << <<"ALTER TYPE ">> \o Quoted_postgres_ident(enums.previous.name)
                  \o <<" RENAME TO ">> \o Quoted_postgres_ident(tmp_old_name) >>
            \o << <<"DROP TYPE ">> \o Quoted_postgres_ident(tmp_old_name) >>
            \o << <<"ALTER TYPE ">> \o Quoted_postgres_ident(tmp_name)
                  \o <<" RENAME TO ">> \o Quoted_postgres_ident(enums.next.name) >>
            \o << <<"COMMIT">> >>

PostgresFlavour_render_alter_enum(alter_enum, schemas) ==
    LET enums == enums_of(schemas, alter_enum.index)
        tmp_name == enums.next.name \o "_new"
        tmp_old_name == enums.previous.name \o "_old"
        affected_columns ==
            filter(walk_columns(schemas.next),
                   LAMBDA c : c.column.family = "Enum" /\ c.column.enum_name = enums.next.name)
    IN IF alter_enum.dropped_variants = <<>>
       THEN map(alter_enum.created_variants, LAMBDA created_value :
                   <<"ALTER TYPE ">> \o Quoted_postgres_ident(enums.previous.name)
                   \o <<" ADD VALUE ">> \o Quoted_postgres_string(created_value))
       ELSE << <<"BEGIN">> >>
            \o << <<"CREATE TYPE ">> \o Quoted_postgres_ident(tmp_name) \o <<" AS ENUM (">>
                  \o join(map(enums.next.values, Quoted_postgres_string), ", ") \o <<")">> >>
            \o map(affected_columns, LAMBDA c :
                   <<"ALTER TABLE ">> \o Quoted_postgres_ident(PostgresFlavour_schema_name)
                   \o <<".">> \o Quoted_postgres_ident(c.table)
                   \o <<" ALTER COLUMN ">> \o Quoted_postgres_ident(c.column.name)
                   \o <<" TYPE ">> \o Quoted_postgres_ident(tmp_name)
                   \o <<" USING (">> \o Quoted_postgres_ident(c.column.name)
                   \o <<"::text::">> \o Quoted_postgres_ident(tmp_name) \o <<")">>)
            \o << <<"ALTER TYPE ">> \o Quoted_postgres_ident(enums.previous.name)
                  \o <<" RENAME TO ">> \o Quoted_postgres_ident(tmp_old_name) >>
            \o << <<"ALTER TYPE ">> \o Quoted_postgres_ident(tmp_name)
                  \o <<" RENAME TO ">> \o Quoted_postgres_ident(enums.next.name) >>
            \o << <<"DROP TYPE ">> \o Quoted_postgres_ident(tmp_old_name) >>
            \o << <<"COMMIT">> >>

(***************************************************************************)
(* Inputs of the PostgreSQL AlterEnum: enum Color, used by columns of      *)
(* tables T and U next to a column of enum Mood and an Int column          *)
(***************************************************************************)
VariantNames == <<"Red", "Green", "Blue", "Pink", "Grey">>

\* The lists of variants: the sub-lists of the first MaxVariants names.
VariantLists ==
    { SelectSeq(SubSeq(VariantNames, 1, MaxVariants), LAMBDA v : v \in S) :
        S \in SUBSET { VariantNames[i] : i \in 1..MaxVariants } }

\* How many columns of T and of U are of enum Color.
EnumColumnShapes == { <<0, 0>>, <<1, 0>>, <<0, 1>>, <<1, 1>>, <<2, 1>> }

enum_table_of(name, n) ==
    Table(name,
          <<PgColumn("id", "Int", "", "Required", FALSE, None)>>
          \o [i \in 1..n |-> PgColumn(ColumnNames[i], "Enum", "Color", "Required", FALSE, None)]
          \o <<PgColumn("m", "Enum", "Mood", "Nullable", FALSE, None)>>,
          None, <<>>, <<>>)

enum_schema_of(values, shape) ==
    [tables |-> <<enum_table_of("T", shape[1]), enum_table_of("U", shape[2])>>,
     enums |-> <<Enum("Mood", <<"Happy">>), Enum("Color", values)>>]

\* The differ: created variants are the next ones absent before, dropped
\* variants the previous ones absent afterwards.
alter_enum_input_of(previous_values, next_values, shape) ==
    [schemas |-> Pair(enum_schema_of(previous_values, shape),
                      enum_schema_of(next_values, shape)),
     alter_enum |->
        [index |-> Pair(2, 2),
         created_variants |->
            SelectSeq(next_values, LAMBDA v : ~any(previous_values, LAMBDA p : p = v)),
         dropped_variants |->
            SelectSeq(previous_values, LAMBDA v : ~any(next_values, LAMBDA n : n = v))]]

PostgresAlterEnumInputs ==
    { alter_enum_input_of(p, n, shape) :
        p \in VariantLists \ {<<>>}, n \in VariantLists \ {<<>>}, shape \in EnumColumnShapes }

InitPostgresAlterEnum ==
    /\ pc = "postgres_alter_enum"
    /\ input \in { i \in PostgresAlterEnumInputs :
                      i.schemas.previous.enums # i.schemas.next.enums }
    /\ output = <<>>
    /\ Idle

RenderAlterEnumPostgres ==
    /\ pc = "postgres_alter_enum"
    /\ output' = PostgresFlavour_render_alter_enum(input.alter_enum, input.schemas)
    /\ pc' = "rendered"
    /\ UNCHANGED <<input, index, pos, executed, result>>

SpecPostgresAlterEnum == InitPostgresAlterEnum /\ [][RenderAlterEnumPostgres]_vars

(***************************************************************************)
(* C11  PostgreSQL AlterEnum: ADD VALUE or transactional rebuild           *)
(***************************************************************************)
\* The columns of enum Color in the next schema, as <<table, column>>.
C11_using ==
    LET t == input.schemas.next.tables
        of(k) == SelectSeq(t[k].columns,
                           LAMBDA c : c.family = "Enum" /\ c.enum_name = "Color")
    IN Flatten([k \in 1..Len(t) |-> [j \in 1..Len(of(k)) |-> <<t[k].name, of(k)[j].name>>]])

C11_variants ==
    LET v == input.schemas.next.enums[2].values
    IN str(join([i \in 1..Len(v) |-> <<"'" \o v[i] \o "'">>], ", "))

C11_rebuild ==
    << "BEGIN", "CREATE TYPE \"Color_new\" AS ENUM (" \o C11_variants \o ")" >>
    \o [j \in 1..Len(C11_using) |->
          "ALTER TABLE \"public\".\"" \o C11_using[j][1] \o "\" ALTER COLUMN \""
          \o C11_using[j][2] \o "\" TYPE \"Color_new\" USING (\"" \o C11_using[j][2]
          \o "\"::text::\"Color_new\")"]
    \o << "ALTER TYPE \"Color\" RENAME TO \"Color_old\"",
          "ALTER TYPE \"Color_new\" RENAME TO \"Color\"",
          "DROP TYPE \"Color_old\"",
          "COMMIT" >>

\* C11: without a dropped variant the statements are one
\* `ALTER TYPE "Color" ADD VALUE '<variant>'` per created variant, in order, and
\* nothing else; with a dropped variant they are BEGIN, CREATE TYPE "Color_new"
\* with the next variants, one ALTER COLUMN ... TYPE ... USING (col::text::new)
\* per column of the enum, the rename of the old type to "Color_old", the rename
\* of the new type to "Color", DROP TYPE "Color_old", COMMIT.
C11_AlterEnum ==
    pc = "rendered" =>
       IF input.alter_enum.dropped_variants = <<>>
       THEN map(output, str)
              = [i \in 1..Len(input.alter_enum.created_variants) |->
                   "ALTER TYPE \"Color\" ADD VALUE '"
                   \o input.alter_enum.created_variants[i] \o "'"]
       ELSE map(output, str) = C11_rebuild

C11_Witness ==
    /\ pc = "rendered"
    /\ Len(input.alter_enum.dropped_variants) = 1
    /\ Len(input.alter_enum.created_variants) = 2
    /\ Len(C11_using) = 3
    /\ Len(output) = 9
    /\ str(output[3]) = "ALTER TABLE \"public\".\"T\" ALTER COLUMN \"a\" TYPE \"Color_new\" USING (\"a\"::text::\"Color_new\")"

\* The ADD VALUE case of C11 with two created variants.
C11_WitnessAddValue ==
    /\ pc = "rendered"
    /\ input.alter_enum.dropped_variants = <<>>
    /\ map(output, str) = << "ALTER TYPE \"Color\" ADD VALUE 'Green'",
                             "ALTER TYPE \"Color\" ADD VALUE 'Blue'" >>

(***************************************************************************)
(* PostgreSQL: expansion of an AlterColumn and render_alter_table          *)
(***************************************************************************)
\* ColumnChanges::iter: the changes in the order of the ColumnChange enum.
ColumnChangeOrder == <<"Renaming", "Arity", "Default", "TypeChanged", "Sequence">>
column_changes_iter(column_changes) ==
    SelectSeq(ColumnChangeOrder, LAMBDA change : change \in column_changes)

expand_postgres_change(change, columns) ==
    CASE change = "Default" ->
            IF is_some(columns.next.default)
            THEN <<[op |-> "SetDefault", default |-> columns.next.default[1]]>>
            ELSE <<[op |-> "DropDefault"]>>
      [] change = "Arity" ->
            (CASE columns.previous.arity = "Required" /\ columns.next.arity = "Nullable" ->
                    <<[op |-> "DropNotNull"]>>
               [] columns.previous.arity = "Nullable" /\ columns.next.arity = "Required" ->
                    <<[op |-> "SetNotNull"]>>
               [] columns.previous.arity = "List" /\ columns.next.arity = "Nullable" ->
                    <<[op |-> "DropNotNull"]>>
               [] columns.previous.arity = "List" /\ columns.next.arity = "Required" ->
                    <<[op |-> "SetNotNull"]>>
               [] OTHER -> <<>>)
      [] change = "TypeChanged" -> <<>>
      [] change = "Sequence" ->
            IF is_autoincrement(columns.previous)
            THEN <<[op |-> "DropDefault"]>>
            ELSE <<[op |-> "AddSequence"]>>
      [] OTHER -> <<Panic>>

postgres_set_type(column_changes, columns) ==
    \/ "TypeChanged" \in column_changes
    \/ /\ "Arity" \in column_changes
       /\ columns.previous.arity # columns.next.arity
       /\ "List" \in {columns.previous.arity, columns.next.arity}

expand_postgres_alter_column(columns, column_changes) ==
    Flatten(map(column_changes_iter(column_changes),
                LAMBDA change : expand_postgres_change(change, columns)))
    \o (IF postgres_set_type(column_changes, columns)
        THEN <<[op |-> "SetType", ty |-> columns.next]>> ELSE <<>>)

\* regex '|\\ replaced by \$0
RECURSIVE postgres_escape_string_literal(_)
postgres_escape_string_literal(s) ==
    IF s = <<>> THEN <<>>
    ELSE (IF Head(s) \in {"'", "\\"} THEN <<"\\", Head(s)>> ELSE <<Head(s)>>)
         \o postgres_escape_string_literal(Tail(s))

postgres_render_column_type(t) ==
    LET array == IF t.arity = "List" THEN <<"[]">> ELSE <<>>
    IN IF t.full_data_type # <<>> THEN t.full_data_type \o array
       ELSE (CASE t.family = "Boolean" -> <<"BOOLEAN">>
               [] t.family = "DateTime" -> <<"TIMESTAMP(3)">>
               [] t.family = "Float" -> <<"DECIMAL(65,30)">>
               [] t.family = "Decimal" -> <<"DECIMAL(65,30)">>
               [] t.family = "Int" -> <<"INTEGER">>
               [] t.family = "BigInt" -> <<"BIGINT">>
               [] t.family = "String" -> <<"TEXT">>
               [] t.family = "Enum" -> Quoted_postgres_ident(t.enum_name)
               [] t.family = "Json" -> <<"JSONB">>
               [] t.family = "Binary" -> <<"BYTEA">>
               [] OTHER -> <<"!panic">>) \o array

PostgresFlavour_render_default(default, family) ==
    CASE default.kind = "DBGENERATED" -> default.val
      [] default.kind = "VALUE" /\ default.vtype = "String" /\ family = "String" ->
            <<"E'">> \o postgres_escape_string_literal(default.val) \o <<"'">>
      [] default.kind = "VALUE" /\ default.vtype = "Enum" /\ family = "Enum" ->
            <<"E'">> \o postgres_escape_string_literal(default.val) \o <<"'">>
      [] default.kind = "VALUE" /\ default.vtype = "Bytes" /\ family = "Binary" ->
            <<"'">> \o format_hex(default.val) \o <<"'">>
      [] default.kind = "NOW" /\ family = "DateTime" -> <<"CURRENT_TIMESTAMP">>
      [] default.kind = "NOW" /\ family # "DateTime" -> Unreachable
      [] default.kind = "VALUE" /\ family = "DateTime" -> <<"'">> \o default.val \o <<"'">>
      [] default.kind = "VALUE" /\ default.vtype = "String" /\ family = "Json" ->
            <<"'">> \o default.val \o <<"'">>
      [] default.kind = "SEQUENCE" -> <<>>
      [] OTHER -> default.val

PostgresFlavour_render_column(column) ==
    LET default_str ==
          IF is_some(column.default) /\ column.default[1].kind # "DBGENERATED"
          THEN <<" DEFAULT ">> \o PostgresFlavour_render_default(column.default[1], column.family)
          ELSE <<>>
    IN IF is_autoincrement(column)
       THEN PostgresFlavour_quote(column.name) \o <<" SERIAL">>
       ELSE <<SQL_INDENTATION>> \o PostgresFlavour_quote(column.name) \o <<" ">>
            \o postgres_render_column_type(column) \o render_nullability(column) \o default_str

\* SEQUENCE_DEFAULT_RE: nextval\('"?([^"]+)"?'::regclass\), the first capture.
sequence_name_of(sequence_expression) ==
    IF /\ Len(sequence_expression) = 5
       /\ sequence_expression[1] = "nextval('"
       /\ sequence_expression[2] = "\""
       /\ sequence_expression[4] = "\""
       /\ sequence_expression[5] = "'::regclass)"
    THEN Some(sequence_expression[3])
    ELSE IF /\ Len(sequence_expression) = 3
            /\ sequence_expression[1] = "nextval('"
            /\ sequence_expression[3] = "'::regclass)"
    THEN Some(sequence_expression[2])
    ELSE None

\* str::to_lowercase over the names of the model.
to_lowercase(name) ==
    CASE name = "T" -> "t"
      [] name = "U" -> "u"
      [] OTHER -> name

postgres_sequence_is_still_used(schema, tables, columns, sequence_expression) ==
    any(walk_columns(schema),
        LAMBDA c : /\ is_some(c.column.default)
                   /\ c.column.default[1].kind = "SEQUENCE"
                   /\ c.column.default[1].val = sequence_expression
                   /\ ~(c.table = tables.next.name /\ c.column.name = columns.next.name))

postgres_sequence_name(tables, columns) ==
    to_lowercase(tables.next.name) \o "_" \o to_lowercase(columns.next.name) \o "_seq"

\* What one step of an expanded AlterColumn pushes on before_statements,
\* clauses and after_statements.
postgres_before_of(step, tables, columns) ==
    IF step.op = "AddSequence"
    THEN << <<"CREATE SEQUENCE ">> \o Quoted_postgres_ident(postgres_sequence_name(tables, columns)) >>
    ELSE <<>>

postgres_clauses_of(step, tables, columns) ==
    LET alter_column_prefix == <<"ALTER COLUMN ">> \o Quoted_postgres_ident(columns.previous.name)
    IN CASE step.op = "DropDefault" ->
               IF /\ is_some(columns.previous.default)
                  /\ columns.previous.default[1].kind = "SEQUENCE"
                  /\ is_none(sequence_name_of(columns.previous.default[1].val))
               THEN <<Unreachable>>
               ELSE <<alter_column_prefix \o <<" DROP DEFAULT">> >>
         [] step.op = "SetDefault" ->
               <<alter_column_prefix \o <<" SET DEFAULT ">>
                 \o PostgresFlavour_render_default(step.default, columns.next.family)>>
         [] step.op = "DropNotNull" -> <<alter_column_prefix \o <<" DROP NOT NULL">> >>
         [] step.op = "SetNotNull" -> <<alter_column_prefix \o <<" SET NOT NULL">> >>
         [] step.op = "SetType" ->
               <<alter_column_prefix \o <<" SET DATA TYPE ">> \o postgres_render_column_type(step.ty)>>
         [] step.op = "AddSequence" ->
               <<alter_column_prefix \o <<" SET DEFAULT ">> \o <<"nextval(">>
                 \o Quoted_postgres_string(postgres_sequence_name(tables, columns)) \o <<")">> >>
         [] OTHER -> <<Unreachable>>

postgres_after_of(step, schemas, tables, columns) ==
    CASE step.op = "DropDefault" ->
            IF /\ is_some(columns.previous.default)
               /\ columns.previous.default[1].kind = "SEQUENCE"
               /\ is_some(sequence_name_of(columns.previous.default[1].val))
               /\ ~postgres_sequence_is_still_used(schemas.next, tables, columns,
                                                   columns.previous.default[1].val)
            THEN << <<"DROP SEQUENCE ">>
                    \o Quoted_postgres_ident(sequence_name_of(columns.previous.default[1].val)[1]) >>
            ELSE <<>>
      [] step.op = "AddSequence" ->
            << <<"ALTER SEQUENCE ">>
               \o Quoted_postgres_ident(postgres_sequence_name(tables, columns))
               \o <<" OWNED BY ">> \o Quoted_postgres_ident(PostgresFlavour_schema_name)
               \o <<".">> \o Quoted_postgres_ident(tables.previous.name)
               \o <<".">> \o Quoted_postgres_ident(columns.previous.name) >>
      [] OTHER -> <<>>

\* render_alter_column: [before, clauses, after] of one AlterColumn.
postgres_render_alter_column(schemas, tables, columns, column_changes) ==
    LET steps == expand_postgres_alter_column(columns, column_changes)
    IN [before |-> Flatten(map(steps, LAMBDA step : postgres_before_of(step, tables, columns))),
        clauses |-> Flatten(map(steps, LAMBDA step : postgres_clauses_of(step, tables, columns))),
        after |-> Flatten(map(steps, LAMBDA step :
                                 postgres_after_of(step, schemas, tables, columns)))]

postgres_lines_of(change, schemas, tables) ==
    CASE change.tag = "DropPrimaryKey" ->
            IF is_none(tables.previous.primary_key) THEN <<Unreachable>>
            ELSE IF is_none(tables.previous.primary_key[1].constraint_name) THEN <<Unreachable>>
            ELSE << <<"DROP CONSTRAINT ">>
                    \o Quoted_postgres_ident(tables.previous.primary_key[1].constraint_name[1]) >>
      [] change.tag = "AddPrimaryKey" ->
            << <<"ADD PRIMARY KEY (">>
               \o join(map(change.columns, PostgresFlavour_quote), ", ") \o <<")">> >>
      [] change.tag = "AddColumn" ->
            << <<"ADD COLUMN ">>
               \o PostgresFlavour_render_column(tables.next.columns[change.column_index]) >>
      [] change.tag = "DropColumn" ->
            << <<"DROP COLUMN ">>
               \o PostgresFlavour_quote(tables.previous.columns[change.index].name) >>
      [] change.tag = "AlterColumn" ->
            postgres_render_alter_column(schemas, tables,
                columns_of(tables, change.column_index), change.changes).clauses
      [] change.tag = "DropAndRecreateColumn" ->
            << <<"DROP COLUMN ">>
               \o PostgresFlavour_quote(columns_of(tables, change.column_index).previous.name),
               <<"ADD COLUMN ">>
               \o PostgresFlavour_render_column(columns_of(tables, change.column_index).next) >>
      [] OTHER -> <<Unreachable>>

\* The tables of a PostgreSQL schema pair.
postgres_tables_of(schemas, table_index) ==
    Pair(schemas.previous.tables[table_index.previous], schemas.next.tables[table_index.next])

\* Variant: every change is rendered as an ALTER TABLE statement of its own.
PostgresFlavour_render_alter_table_one_each(alter_table, schemas) ==
    LET tables == postgres_tables_of(schemas, alter_table.table_index)
        changes == alter_table.changes
        alters == filter(changes, LAMBDA ch : ch.tag = "AlterColumn")
        rendered(ch) == postgres_render_alter_column(
                            schemas, tables, columns_of(tables, ch.column_index), ch.changes)
        lines == Flatten(map(changes, LAMBDA ch : postgres_lines_of(ch, schemas, tables)))
        before_statements == Flatten(map(alters, LAMBDA ch : rendered(ch).before))
        after_statements == Flatten(map(alters, LAMBDA ch : rendered(ch).after))
    IN IF any(lines, LAMBDA line : line = Unreachable) THEN <<Unreachable>>
       ELSE IF lines = <<>> THEN <<>>
       ELSE before_statements
            \o map(lines, LAMBDA line :
                     <<"ALTER TABLE ">> \o PostgresFlavour_quote(tables.previous.name)
                     \o <<" ">> \o line)
            \o after_statements

\* An aborted rendering returns no statement list: it is the list <<Unreachable>>.
PostgresFlavour_render_alter_table(alter_table, schemas) ==
    LET tables == postgres_tables_of(schemas, alter_table.table_index)
        changes == alter_table.changes
        alters == filter(changes, LAMBDA ch : ch.tag = "AlterColumn")
        rendered(ch) == postgres_render_alter_column(
                            schemas, tables, columns_of(tables, ch.column_index), ch.changes)
        lines == Flatten(map(changes, LAMBDA ch : postgres_lines_of(ch, schemas, tables)))
        before_statements == Flatten(map(alters, LAMBDA ch : rendered(ch).before))
        after_statements == Flatten(map(alters, LAMBDA ch : rendered(ch).after))
    IN IF any(lines, LAMBDA line : line = Unreachable) THEN <<Unreachable>>
       ELSE IF lines = <<>> THEN <<>>
       ELSE before_statements
            \o << <<"ALTER TABLE ">> \o PostgresFlavour_quote(tables.previous.name)
                  \o <<" ">> \o join(lines, ",\n") >>
            \o after_statements

(***************************************************************************)
(* Inputs of the PostgreSQL AlterTable: T(old, id, a, b) -> T(id, a, b,    *)
(* new), next to U(x)                                                      *)
(***************************************************************************)
SequenceOfA == Some(DefaultValue("SEQUENCE", "None",
                                 <<"nextval('", "\"", "T_a_seq", "\"", "'::regclass)">>, None))
SequenceOfB == Some(DefaultValue("SEQUENCE", "None",
                                 <<"nextval('", "t_b_seq", "'::regclass)">>, None))

\* What happens to column a: <<previous column, next column, changes>>.
PgAlterKindsA == {"gain", "lose", "lose_twice", "lose_to_value", "arity", "set_default",
                  "drop_default", "type"}

pg_column_a(kind) ==
    CASE kind = "gain" ->
            <<PgColumn("a", "Int", "", "Required", FALSE, None),
              PgColumn("a", "Int", "", "Required", TRUE, None), {"Sequence"}>>
      [] kind = "lose" ->
            <<PgColumn("a", "Int", "", "Required", TRUE, SequenceOfA),
              PgColumn("a", "Int", "", "Required", FALSE, None), {"Sequence"}>>
      [] kind = "lose_twice" ->
            <<PgColumn("a", "Int", "", "Required", TRUE, SequenceOfA),
              PgColumn("a", "Int", "", "Required", FALSE, None), {"Sequence", "Default"}>>
      [] kind = "lose_to_value" ->
            <<PgColumn("a", "Int", "", "Required", TRUE, SequenceOfA),
              PgColumn("a", "Int", "", "Required", FALSE, IntDefault), {"Sequence", "Default"}>>
      [] kind = "arity" ->
            <<PgColumn("a", "Int", "", "Required", FALSE, None),
              PgColumn("a", "Int", "", "Nullable", FALSE, None), {"Arity"}>>
      [] kind = "set_default" ->
            <<PgColumn("a", "Int", "", "Required", FALSE, None),
              PgColumn("a", "Int", "", "Required", FALSE, IntDefault), {"Default"}>>
      [] kind = "drop_default" ->
            <<PgColumn("a", "Int", "", "Required", FALSE, IntDefault),
              PgColumn("a", "Int", "", "Required", FALSE, None), {"Default"}>>
      [] kind = "type" ->
            <<PgColumn("a", "Int", "", "Required", FALSE, None),
              PgColumn("a", "BigInt", "", "List", FALSE, None), {"TypeChanged", "Arity"}>>

\* What happens to column b: kept, kept with the sequence of a as its default,
\* gains a sequence, or loses the sequence of a that it had as well.
PgAlterKindsB == {"keep", "shares", "gain", "loses_shared"}

pg_column_b(kind) ==
    CASE kind = "keep" ->
            <<PgColumn("b", "Int", "", "Required", FALSE, None),
              PgColumn("b", "Int", "", "Required", FALSE, None), {}>>
      [] kind = "shares" ->
            <<PgColumn("b", "Int", "", "Required", TRUE, SequenceOfA),
              PgColumn("b", "Int", "", "Required", TRUE, SequenceOfA), {}>>
      [] kind = "gain" ->
            <<PgColumn("b", "Int", "", "Required", FALSE, None),
              PgColumn("b", "Int", "", "Required", TRUE, None), {"Sequence"}>>
      [] kind = "loses_shared" ->
            <<PgColumn("b", "Int", "", "Required", TRUE, SequenceOfA),
              PgColumn("b", "Int", "", "Required", FALSE, None), {"Sequence"}>>

pg_table_u(u_shares) ==
    Table("U", <<PgColumn("x", "Int", "", "Required", u_shares,
                          IF u_shares THEN SequenceOfA ELSE SequenceOfB)>>, None, <<>>, <<>>)

pg_alter_table_input_of(a, b, u_shares, extras) ==
    [schemas |->
        Pair([tables |-> <<Table("T",
                                 <<PgColumn("old", "String", "", "Nullable", FALSE, None),
                                   PgColumn("id", "Int", "", "Required", FALSE, None),
                                   pg_column_a(a)[1], pg_column_b(b)[1]>>,
                                 None, <<>>, <<>>),
                           pg_table_u(u_shares)>>,
              enums |-> <<>>],
             [tables |-> <<Table("T",
                                 <<PgColumn("id", "Int", "", "Required", FALSE, None),
                                   pg_column_a(a)[2], pg_column_b(b)[2],
                                   PgColumn("new", "String", "", "Nullable", FALSE, StringDefault)>>,
                                 None, <<>>, <<>>),
                           pg_table_u(u_shares)>>,
              enums |-> <<>>]),
     alter_table |->
        [table_index |-> Pair(1, 1),
         changes |->
            (IF "DropColumn" \in extras THEN <<[tag |-> "DropColumn", index |-> 1]>> ELSE <<>>)
            \o <<[tag |-> "AlterColumn", column_index |-> Pair(3, 2),
                  changes |-> pg_column_a(a)[3], type_change |-> None]>>
            \o (IF pg_column_b(b)[3] # {}
                THEN <<[tag |-> "AlterColumn", column_index |-> Pair(4, 3),
                        changes |-> pg_column_b(b)[3], type_change |-> None]>>
                ELSE <<>>)
            \o (IF "AddColumn" \in extras THEN <<[tag |-> "AddColumn", column_index |-> 4]>>
                ELSE <<>>)]]

PostgresAlterTableInputs ==
    { pg_alter_table_input_of(a, b, u_shares, extras) :
        a \in PgAlterKindsA, b \in PgAlterKindsB, u_shares \in BOOLEAN,
        extras \in SUBSET {"DropColumn", "AddColumn"} }

InitPostgresAlterTable ==
    /\ pc = "postgres_alter_table"
    /\ input \in PostgresAlterTableInputs
    /\ output = <<>>
    /\ Idle

RenderAlterTablePostgres ==
    /\ pc = "postgres_alter_table"
    /\ output' = PostgresFlavour_render_alter_table(input.alter_table, input.schemas)
    /\ pc' = "rendered"
    /\ UNCHANGED <<input, index, pos, executed, result>>

SpecPostgresAlterTable == InitPostgresAlterTable /\ [][RenderAlterTablePostgres]_vars

(***************************************************************************)
(* C12  PostgreSQL AlterTable: one ALTER TABLE, sequences around it        *)
(***************************************************************************)
\* The positions of the statements that are an ALTER TABLE.
C12_alter_tables == { i \in 1..Len(output) : output[i][1] = "ALTER TABLE " }

\* The AlterColumn changes, with their previous and next column.
C12_alter_columns ==
    LET ch == SelectSeq(input.alter_table.changes, LAMBDA c : c.tag = "AlterColumn")
    IN { [changes |-> ch[k].changes,
          previous |-> input.schemas.previous.tables[1].columns[ch[k].column_index.previous],
          next |-> input.schemas.next.tables[1].columns[ch[k].column_index.next]] :
            k \in 1..Len(ch) }

\* The column gains a sequence default / loses the sequence default it had.
C12_gains(ac) == "Sequence" \in ac.changes /\ ~ac.previous.auto_increment
C12_loses(ac) ==
    /\ ac.previous.default # None
    /\ ac.previous.default[1].kind = "SEQUENCE"
    /\ \/ "Sequence" \in ac.changes /\ ac.previous.auto_increment
       \/ "Default" \in ac.changes /\ ac.next.default = None

\* Another column of the next schema has the sequence default that ac had.
C12_used_elsewhere(ac) ==
    \E t \in 1..Len(input.schemas.next.tables) :
       \E c \in 1..Len(input.schemas.next.tables[t].columns) :
          LET col == input.schemas.next.tables[t].columns[c]
          IN /\ ~(t = 1 /\ col.name = ac.next.name)
             /\ col.default # None
             /\ col.default[1].kind = "SEQUENCE"
             /\ col.default[1].val = ac.previous.default[1].val

C12_sequence_of(ac) == IF ac.next.name = "a" THEN "t_a_seq" ELSE "t_b_seq"

\* The number of clauses of a statement that start with the keyword.
C12_count(statement, keyword) ==
    Cardinality({ j \in 1..Len(statement) : statement[j] = keyword })

C12_changes_tagged(tag) ==
    Len(SelectSeq(input.alter_table.changes, LAMBDA c : c.tag = tag))

\* C12: the statements hold exactly one ALTER TABLE, which carries a clause for
\* every change of the AlterTable; a column that gains a sequence default has
\* its CREATE SEQUENCE before the ALTER TABLE and its ALTER SEQUENCE ... OWNED BY
\* after it; a column whose sequence default is dropped has a DROP SEQUENCE
\* after the ALTER TABLE exactly when no other column of the next schema has
\* the same sequence default; there is no other statement.
C12_AlterTable ==
    pc = "rendered" =>
      /\ Cardinality(C12_alter_tables) = 1
      /\ \A at \in C12_alter_tables :
          /\ SubSeq(output[at], 1, 5) = <<"ALTER TABLE ", "\"", "T", "\"", " ">>
          /\ C12_count(output[at], "ADD COLUMN ") = C12_changes_tagged("AddColumn")
          /\ C12_count(output[at], "DROP COLUMN ") = C12_changes_tagged("DropColumn")
          /\ \A ac \in C12_alter_columns :
                \E j \in 1..Len(output[at]) - 2 :
                   output[at][j] = "ALTER COLUMN " /\ output[at][j + 2] = ac.previous.name
          /\ \A ac \in C12_alter_columns :
              /\ C12_gains(ac) =>
                   /\ \E i \in 1..(at - 1) :
                         str(output[i]) = "CREATE SEQUENCE \"" \o C12_sequence_of(ac) \o "\""
                   /\ \E k \in (at + 1)..Len(output) :
                         str(output[k]) = "ALTER SEQUENCE \"" \o C12_sequence_of(ac)
                                          \o "\" OWNED BY \"public\".\"T\".\""
                                          \o ac.next.name \o "\""
              /\ C12_loses(ac) =>
                   ((\E k \in (at + 1)..Len(output) :
                        str(output[k]) = "DROP SEQUENCE \"T_a_seq\"")
                    <=> ~C12_used_elsewhere(ac))
          /\ \A i \in 1..(at - 1) :
                /\ output[i][1] = "CREATE SEQUENCE "
                /\ \E ac \in C12_alter_columns :
                      C12_gains(ac) /\ output[i][3] = C12_sequence_of(ac)
          /\ \A k \in (at + 1)..Len(output) :
                \/ /\ output[k][1] = "ALTER SEQUENCE "
                   /\ \E ac \in C12_alter_columns :
                         C12_gains(ac) /\ output[k][3] = C12_sequence_of(ac)
                \/ /\ output[k][1] = "DROP SEQUENCE "
                   /\ \E ac \in C12_alter_columns : C12_loses(ac) /\ ~C12_used_elsewhere(ac)

\* a loses its sequence, which no other column uses, b gains one, and a column
\* is dropped and another added in the same AlterTable.
C12_Witness ==
    /\ pc = "rendered"
    /\ Len(input.alter_table.changes) = 4
    /\ map(output, str)
         = << "CREATE SEQUENCE \"t_b_seq\"",
              "ALTER TABLE \"T\" DROP COLUMN \"old\",\nALTER COLUMN \"a\" DROP DEFAULT,\nALTER COLUMN \"b\" SET DEFAULT nextval('t_b_seq'),\nADD COLUMN     \"new\" TEXT DEFAULT E'o\\'k'",
              "DROP SEQUENCE \"T_a_seq\"",
              "ALTER SEQUENCE \"t_b_seq\" OWNED BY \"public\".\"T\".\"b\"" >>

\* a loses its sequence while a column of U still has it: no DROP SEQUENCE.
C12_WitnessStillUsed ==
    /\ pc = "rendered"
    /\ \E ac \in C12_alter_columns : C12_loses(ac) /\ C12_used_elsewhere(ac)
    /\ \A k \in 1..Len(output) : output[k][1] # "DROP SEQUENCE "

(***************************************************************************)
(* MySQL renderer (sql_renderer/mysql_renderer.rs)                         *)
(***************************************************************************)
\* The backtick cannot be written in a string of this language: ^ stands for it.
Backtick == "^"
Quoted_Backticks(name) == <<Backtick, name, Backtick>>
Quoted_mysql_ident(name) == Quoted_Backticks(name)
MysqlFlavour_quote(name) == Quoted_Backticks(name)

column_was_renamed(changes) == "Renaming" \in changes
type_changed(changes) == "TypeChanged" \in changes

\* TableWalker::foreign_key_for_column
foreign_key_for_column(table, column_name) ==
    filter(table.foreign_keys, LAMBDA fk : any(fk.columns, LAMBDA c : c = column_name))

expand_mysql_alter_column(columns, changes) ==
    IF only_default_changed(changes) /\ is_none(columns.next.default)
    THEN [op |-> "DropDefault"]
    ELSE IF column_was_renamed(changes) THEN Panic
    ELSE [op |-> "Modify",
          changes |-> changes,
          new_default |->
             IF /\ is_some(columns.previous.default) /\ is_some(columns.next.default)
                /\ columns.previous.default[1].kind = "DBGENERATED"
                /\ columns.next.default[1].kind = "DBGENERATED"
                /\ columns.next.default[1].val = <<>>
                /\ columns.previous.default[1].val # <<>>
             THEN columns.previous.default
             ELSE columns.next.default]

\* regex ' replaced by '$0
mysql_escape_string_literal(s) == sqlite_escape_quotes(s)

\* The arms of the families of this model.
mysql_render_column_type(column) ==
    IF column.full_data_type # <<>> THEN column.full_data_type
    ELSE CASE column.family = "Boolean" -> <<"BOOLEAN">>
           [] column.family = "DateTime" -> <<"DATETIME(3)">>
           [] column.family = "Float" -> <<"DECIMAL(65,30)">>
           [] column.family = "Decimal" -> <<"DECIMAL(65,30)">>
           [] column.family = "Int" -> <<"INT">>
           [] column.family = "BigInt" -> <<"BIGINT">>
           [] column.family = "String" -> <<"VARCHAR", "(191)">>
           [] column.family = "Json" -> <<"JSON">>
           [] column.family = "Binary" -> <<"LONGBLOB">>
           [] OTHER -> <<"!panic">>

MysqlFlavour_render_default(default, family) ==
    CASE default.kind = "DBGENERATED" -> default.val
      [] default.kind = "VALUE" /\ default.vtype = "String" /\ family = "String" ->
            <<"'">> \o mysql_escape_string_literal(default.val) \o <<"'">>
      [] default.kind = "VALUE" /\ default.vtype = "Enum" /\ family = "Enum" ->
            <<"'">> \o mysql_escape_string_literal(default.val) \o <<"'">>
      [] default.kind = "NOW" /\ family = "DateTime" -> <<"CURRENT_TIMESTAMP(3)">>
      [] default.kind = "NOW" /\ family # "DateTime" -> Unreachable
      [] default.kind = "VALUE" /\ family = "DateTime" -> <<"'">> \o default.val \o <<"'">>
      [] default.kind = "SEQUENCE" -> <<>>
      [] OTHER -> default.val

MysqlFlavour_render_column(table, column) ==
    LET default_str ==
          IF /\ is_some(column.default)
             /\ column.default[1].kind \notin {"DBGENERATED", "SEQUENCE"}
             /\ column.family # "Json"
             /\ column.family # "Binary"
          THEN <<" DEFAULT ">> \o MysqlFlavour_render_default(column.default[1], column.family)
          ELSE <<>>
        auto_increment_str ==
          IF is_autoincrement(column) THEN <<" AUTO_INCREMENT">> ELSE <<>>
    IN <<SQL_INDENTATION>> \o MysqlFlavour_quote(column.name) \o <<" ">>
       \o mysql_render_column_type(column) \o render_nullability(column) \o default_str
       \o (IF foreign_key_for_column(table, column.name) # <<>> THEN <<>>
           ELSE auto_increment_str)

render_mysql_modify(changes, new_default, next_column) ==
    LET column_type ==
          IF next_column.full_data_type # <<>> THEN next_column.full_data_type
          ELSE mysql_render_column_type(next_column)
        expr == IF is_some(new_default)
                THEN MysqlFlavour_render_default(new_default[1], next_column.family)
                ELSE <<>>
        default == IF is_some(new_default) /\ expr # <<>>
                   THEN <<" DEFAULT ">> \o expr ELSE <<>>
    IN <<"MODIFY ">> \o Quoted_mysql_ident(next_column.name) \o <<" ">> \o column_type
       \o (IF is_required(next_column.arity) THEN <<" NOT NULL">> ELSE <<>>)
       \o default
       \o (IF is_autoincrement(next_column) THEN <<" AUTO_INCREMENT">> ELSE <<>>)

mysql_lines_of(change, tables) ==
    CASE change.tag = "DropPrimaryKey" -> << <<"DROP PRIMARY KEY">> >>
      [] change.tag = "AddPrimaryKey" ->
            << <<"ADD PRIMARY KEY (">>
               \o join(map(change.columns, MysqlFlavour_quote), ", ") \o <<")">> >>
      [] change.tag = "AddColumn" ->
            << <<"ADD COLUMN ">>
               \o MysqlFlavour_render_column(tables.next, tables.next.columns[change.column_index]) >>
      [] change.tag = "DropColumn" ->
            << <<"DROP COLUMN ">> \o MysqlFlavour_quote(tables.previous.columns[change.index].name) >>
      [] change.tag = "AlterColumn" ->
            LET columns == columns_of(tables, change.column_index)
                expanded == expand_mysql_alter_column(columns, change.changes)
            IN CASE expanded.op = "DropDefault" ->
                       << <<"ALTER COLUMN ">> \o Quoted_mysql_ident(columns.previous.name)
                          \o <<" DROP DEFAULT">> >>
                 [] expanded.op = "Modify" ->
                       <<render_mysql_modify(expanded.changes, expanded.new_default, columns.next)>>
                 [] OTHER -> <<Unreachable>>
      [] OTHER -> <<Unreachable>>

MysqlFlavour_render_alter_table(alter_table, schemas) ==
    LET tables == tables_of(schemas, alter_table.table_index)
        lines == Flatten(map(alter_table.changes, LAMBDA ch : mysql_lines_of(ch, tables)))
    IN IF any(lines, LAMBDA line : line = Unreachable) THEN <<Unreachable>>
       ELSE IF lines = <<>> THEN <<>>
       ELSE << <<"ALTER TABLE ">> \o MysqlFlavour_quote(tables.previous.name) \o <<" ">>
               \o join(lines, ",\n    ") >>

\* Index names longer than MYSQL_IDENTIFIER_SIZE_LIMIT are cut; the names of
\* this model are shorter.
mysql_index_name(name) == name

MysqlFlavour_render_create_table_as(table, table_name) ==
    LET columns == join(map(table.columns,
                            LAMBDA column : MysqlFlavour_render_column(table, column)), ",\n")
        primary_columns == primary_key_column_names(table)
        primary_key ==
            IF is_some(primary_columns) /\ primary_columns[1] # <<>>
            THEN <<",\n\n", SQL_INDENTATION, "PRIMARY KEY (">>
                 \o join(map(primary_columns[1], MysqlFlavour_quote), ",") \o <<")">>
            ELSE <<>>
        indexes ==
            IF table.indexes # <<>>
            THEN <<",\n">>
                 \o join(map(table.indexes, LAMBDA idx :
                        <<(IF idx.tpe = "Unique" THEN "UNIQUE " ELSE ""), "INDEX ">>
                        \o MysqlFlavour_quote(mysql_index_name(idx.name)) \o <<"(">>
                        \o join(map(idx.columns, MysqlFlavour_quote), ",\n") \o <<")">>), ",\n")
            ELSE <<>>
    IN <<"CREATE TABLE ">> \o MysqlFlavour_quote(table_name) \o <<" (\n">>
       \o columns \o indexes \o primary_key
       \o <<"\n) DEFAULT CHARACTER SET utf8mb4 COLLATE utf8mb4_unicode_ci">>

(***************************************************************************)
(* Inputs of the MySQL renderer: table Doc(id, c), column c of every       *)
(* family and default, created, added or altered                           *)
(***************************************************************************)
MysqlFamilies == {"Json", "Binary", "String", "Int"}

JsonDefault == Some(DefaultValue("VALUE", "String", <<"{", "}">>, None))
BytesDefault == Some(DefaultValue("VALUE", "Bytes", <<"00">>, None))
EmptyDbGeneratedDefault == Some(DefaultValue("DBGENERATED", "None", <<>>, None))

mysql_value_default(family) ==
    CASE family = "Json" -> JsonDefault
      [] family = "Binary" -> BytesDefault
      [] family = "String" -> StringDefault
      [] family = "Int" -> IntDefault

MysqlColumnShapes ==
    [family : MysqlFamilies, pdef : {"none", "value", "dbgenerated"},
     ndef : {"none", "value", "dbgenerated", "empty"}, parity : Arities, narity : Arities,
     tag : {"CreateTable", "AddColumn", "AlterColumn"}]

mysql_default_of(kind, family) ==
    CASE kind = "none" -> None
      [] kind = "value" -> mysql_value_default(family)
      [] kind = "dbgenerated" -> DbGeneratedDefault
      [] kind = "empty" -> EmptyDbGeneratedDefault

\* The differ leaves the default of a JSON column out of the changes.
mysql_column_changes_of(sh) ==
    (IF sh.parity # sh.narity THEN {"Arity"} ELSE {})
    \cup (IF sh.pdef # sh.ndef /\ sh.family # "Json" THEN {"Default"} ELSE {})

mysql_input_of(sh) ==
    [schemas |->
        Pair(<<Table("Doc",
                     <<Column("id", "Int", "Required", TRUE, None)>>
                     \o (IF sh.tag = "AlterColumn"
                         THEN <<Column("c", sh.family, sh.parity, FALSE,
                                       mysql_default_of(sh.pdef, sh.family))>>
                         ELSE <<>>),
                     Some([columns |-> <<"id">>, constraint_name |-> None]), <<>>, <<>>)>>,
             <<Table("Doc",
                     <<Column("c", sh.family, sh.narity, FALSE,
                              mysql_default_of(sh.ndef, sh.family)),
                       Column("id", "Int", "Required", TRUE, None)>>,
                     Some([columns |-> <<"id">>, constraint_name |-> None]), <<>>, <<>>)>>),
     step |->
        CASE sh.tag = "CreateTable" -> [tag |-> "CreateTable", table_index |-> 1]
          [] sh.tag = "AddColumn" ->
                [tag |-> "AlterTable",
                 alter_table |-> [table_index |-> Pair(1, 1),
                                  changes |-> <<[tag |-> "AddColumn", column_index |-> 1]>>]]
          [] sh.tag = "AlterColumn" ->
                [tag |-> "AlterTable",
                 alter_table |-> [table_index |-> Pair(1, 1),
                                  changes |-> <<[tag |-> "AlterColumn",
                                                 column_index |-> Pair(2, 1),
                                                 changes |-> mysql_column_changes_of(sh),
                                                 type_change |-> None]>>]]]

MysqlColumnInputs ==
    { mysql_input_of(sh) :
        sh \in { s \in MysqlColumnShapes :
                    /\ s.tag = "AlterColumn" => mysql_column_changes_of(s) # {}
                    /\ s.tag # "AlterColumn" => (s.pdef = "none" /\ s.parity = "Required") } }

InitMysqlColumn ==
    /\ pc = "mysql_render"
    /\ input \in MysqlColumnInputs
    /\ output = <<>>
    /\ Idle

\* render_raw_sql of a CreateTable or an AlterTable step on MySQL.
RenderStepMysql ==
    /\ pc = "mysql_render"
    /\ output' = IF input.step.tag = "CreateTable"
                 THEN <<MysqlFlavour_render_create_table_as(
                           input.schemas.next[input.step.table_index],
                           input.schemas.next[input.step.table_index].name)>>
                 ELSE MysqlFlavour_render_alter_table(input.step.alter_table, input.schemas)
    /\ pc' = "rendered"
    /\ UNCHANGED <<input, index, pos, executed, result>>

SpecMysqlColumn == InitMysqlColumn /\ [][RenderStepMysql]_vars

(***************************************************************************)
(* C13  MySQL: no DEFAULT on a JSON or binary column                       *)
(***************************************************************************)
\* The definition of column c is the only one of the statement that can have a
\* DEFAULT clause (id has no default).
C13_has_default_clause ==
    \E i \in 1..Len(output) : \E j \in 1..Len(output[i]) : output[i][j] = " DEFAULT "

C13_is_json_or_binary == input.schemas.next[1].columns[1].family \in {"Json", "Binary"}

\* C13: the definition of a JSON or binary column has no DEFAULT clause, in
\* CREATE TABLE, in ADD COLUMN and in the MODIFY of an AlterColumn, whatever
\* the default of the next column.
C13_NoDefault ==
    (pc = "rendered" /\ C13_is_json_or_binary) => ~C13_has_default_clause

\* What holds: the column definitions of CREATE TABLE and ADD COLUMN have no
\* DEFAULT clause on a JSON or binary column.
C13_NoDefaultInRenderColumn ==
    (/\ pc = "rendered"
     /\ C13_is_json_or_binary
     /\ \/ input.step.tag = "CreateTable"
        \/ input.step.alter_table.changes[1].tag = "AddColumn")
       => ~C13_has_default_clause

\* The MODIFY of a JSON column that becomes required keeps the default of the
\* next column.
C13_ModifyJsonWithDefault ==
    /\ pc = "rendered"
    /\ input.step.tag = "AlterTable"
    /\ input.step.alter_table.changes[1].tag = "AlterColumn"
    /\ input.step.alter_table.changes[1].changes = {"Arity"}
    /\ map(output, str) = <<"ALTER TABLE ^Doc^ MODIFY ^c^ JSON NOT NULL DEFAULT {}">>

(***************************************************************************)
(* MSSQL describer (libs/sql-schema-describer/src/mssql.rs)                *)
(*                                                                         *)
(* The result of a describer function is Ok(value), Err (a DescriberError  *)
(* returned to the caller) or Abort (a panic: nothing is returned).        *)
(***************************************************************************)
DescriberOk(value) == [tag |-> "Ok", value |-> value]
DescriberErr == [tag |-> "Err", value |-> "query"]
DescriberAbort == [tag |-> "Abort", value |-> "panic"]

\* The match on delete_referential_action / update_referential_action.
foreign_key_action(code) ==
    CASE code = 0 -> "NoAction"
      [] code = 1 -> "Cascade"
      [] code = 2 -> "SetNull"
      [] code = 3 -> "SetDefault"
      [] OTHER -> "!panic"

\* Variant: the value is pushed to the front of the vector.
set_at_front(v, p, value) == <<value>> \o v

\* Vec::resize(pos + 1, "") when the vector is too short, then v[pos] = value
\* (pos is 1-based here).
set_at(v, p, value) ==
    [i \in 1..(IF Len(v) < p THEN p ELSE Len(v)) |->
        IF i = p THEN value ELSE IF i <= Len(v) THEN v[i] ELSE ""]

\* The position of the constraint of a table among the collected ones, 0 if new.
fk_position(fks, table_name, constraint_name) ==
    LET hits == { k \in 1..Len(fks) :
                    fks[k].table = table_name /\ fks[k].fk.constraint_name = Some(constraint_name) }
    IN IF hits = {} THEN 0 ELSE CHOOSE k \in hits : TRUE

\* One row of the result set: the collected foreign keys after it, or the abort.
fk_row(acc, row) ==
    LET on_delete_action == foreign_key_action(row.delete_referential_action)
        on_update_action == foreign_key_action(row.update_referential_action)
        k == fk_position(acc.fks, row.table_name, row.constraint_name)
    IN IF acc.aborted THEN acc
       ELSE IF on_delete_action = "!panic" \/ on_update_action = "!panic"
       THEN [acc EXCEPT !.aborted = TRUE]
       ELSE IF k # 0
       THEN [acc EXCEPT !.fks[k].fk.columns = set_at(@, row.ordinal_position, row.column_name),
                        !.fks[k].fk.referenced_columns =
                            set_at(@, row.ordinal_position, row.referenced_column_name)]
       ELSE [acc EXCEPT !.fks = Append(@,
               [table |-> row.table_name,
                fk |-> ForeignKey(Some(row.constraint_name), <<row.column_name>>,
                                  row.referenced_table_name, <<row.referenced_column_name>>,
                                  on_delete_action, on_update_action)])]

RECURSIVE fk_rows(_, _)
fk_rows(acc, rows) ==
    IF rows = <<>> THEN acc ELSE fk_rows(fk_row(acc, Head(rows)), Tail(rows))

\* Vec<String>::cmp over the column names of the model ("" before every name).
name_rank(name) ==
    CASE name = "" -> 0
      [] name = "a" -> 1
      [] name = "b" -> 2
      [] name = "c" -> 3
      [] name = "d" -> 4
      [] OTHER -> 5

RECURSIVE columns_le(_, _)
columns_le(x, y) ==
    IF x = <<>> THEN TRUE
    ELSE IF y = <<>> THEN FALSE
    ELSE IF name_rank(Head(x)) # name_rank(Head(y)) THEN name_rank(Head(x)) < name_rank(Head(y))
    ELSE columns_le(Tail(x), Tail(y))

\* sort_unstable_by on the columns: every order of the foreign keys of a table
\* that is sorted; foreign keys with the same columns come in either order.
sorted_foreign_keys(fks) ==
    LET n == Cardinality(fks)
    IN { s \in [1..n -> fks] :
           /\ \A i, j \in 1..n : i # j => s[i] # s[j]
           /\ \A i \in 1..(n - 1) : columns_le(s[i].columns, s[i + 1].columns) }

\* The maps table name -> Vec<ForeignKey> that get_foreign_keys can return for
\* the rows, or the abort.
get_foreign_keys(rows) ==
    LET acc == fk_rows([aborted |-> FALSE, fks |-> <<>>], rows)
        table_names == { acc.fks[k].table : k \in 1..Len(acc.fks) }
        of(t) == { acc.fks[k].fk : k \in { j \in 1..Len(acc.fks) : acc.fks[j].table = t } }
    IN IF acc.aborted THEN {DescriberAbort}
       ELSE { DescriberOk(m) :
                m \in { f \in [table_names -> UNION { sorted_foreign_keys(of(t)) : t \in table_names }] :
                          \A t \in table_names : f[t] \in sorted_foreign_keys(of(t)) } }

(***************************************************************************)
(* Inputs of get_foreign_keys: the catalog rows of up to MaxForeignKeys    *)
(* foreign keys of table A, of one or two columns, ordered by ordinal      *)
(***************************************************************************)
ActionCodes == 0..MaxActionCode

ForeignKeyShapes ==
    { sh \in [on_delete : ActionCodes, on_update : ActionCodes, columns : {<<"a">>, <<"b", "a">>}] :
        sh.on_delete = 0 \/ sh.on_update = 0 \/ sh.on_delete = sh.on_update }

fk_catalog_row(shapes, k, ord) ==
    [table_name |-> "A",
     constraint_name |-> "fk" \o ToString(k),
     column_name |-> shapes[k].columns[ord],
     referenced_table_name |-> "B",
     referenced_column_name |-> IF ord = 1 THEN "x" ELSE "y",
     delete_referential_action |-> shapes[k].on_delete,
     update_referential_action |-> shapes[k].on_update,
     ordinal_position |-> ord]

\* ORDER BY ordinal_position: the rows of ordinal 1, then those of ordinal 2;
\* the order among the rows of one ordinal is the catalog's.
fk_catalog_rows(shapes, reversed) ==
    LET ks == IF reversed THEN [i \in 1..Len(shapes) |-> Len(shapes) + 1 - i]
              ELSE [i \in 1..Len(shapes) |-> i]
        at(ord) == SelectSeq(ks, LAMBDA k : Len(shapes[k].columns) >= ord)
    IN [i \in 1..Len(at(1)) |-> fk_catalog_row(shapes, at(1)[i], 1)]
       \o [i \in 1..Len(at(2)) |-> fk_catalog_row(shapes, at(2)[i], 2)]

ForeignKeyCatalogs ==
    { fk_catalog_rows(shapes, reversed) :
        shapes \in SeqUpTo(ForeignKeyShapes, MaxForeignKeys), reversed \in BOOLEAN }

InitMssqlForeignKeys ==
    /\ pc = "get_foreign_keys"
    /\ input \in ForeignKeyCatalogs
    /\ output = <<>>
    /\ Idle

\* query_raw succeeded: the rows are folded into the foreign keys.
GetForeignKeys ==
    /\ pc = "get_foreign_keys"
    /\ output' \in get_foreign_keys(input)
    /\ pc' = "described"
    /\ UNCHANGED <<input, index, pos, executed, result>>

\* query_raw failed: `?` returns the error.
GetForeignKeysQueryErr ==
    /\ pc = "get_foreign_keys"
    /\ output' = DescriberErr
    /\ pc' = "query_failed"
    /\ UNCHANGED <<input, index, pos, executed, result>>

NextMssqlForeignKeys == GetForeignKeys \/ GetForeignKeysQueryErr

SpecMssqlForeignKeys == InitMssqlForeignKeys /\ [][NextMssqlForeignKeys]_vars

(***************************************************************************)
(* C14  MSSQL describer: foreign-key action codes                          *)
(***************************************************************************)
C14_action(code) ==
    CASE code = 0 -> "NoAction"
      [] code = 1 -> "Cascade"
      [] code = 2 -> "SetNull"
      [] code = 3 -> "SetDefault"

C14_known(row) ==
    row.delete_referential_action \in 0..3 /\ row.update_referential_action \in 0..3

\* C14: when every row has action codes within 0..3, the foreign key of each
\* constraint has the delete and the update action 0 = no-action, 1 = cascade,
\* 2 = set-null, 3 = set-default; when a row has another code, the describer
\* returns an error to its caller and does not abort.
C14_ActionCodes ==
    pc = "described" =>
       IF \A i \in 1..Len(input) : C14_known(input[i])
       THEN /\ output.tag = "Ok"
            /\ \A i \in 1..Len(input) :
                  \E k \in 1..Len(output.value["A"]) :
                     /\ output.value["A"][k].constraint_name = Some(input[i].constraint_name)
                     /\ output.value["A"][k].on_delete_action
                          = C14_action(input[i].delete_referential_action)
                     /\ output.value["A"][k].on_update_action
                          = C14_action(input[i].update_referential_action)
       ELSE output.tag = "Err"

\* What holds: the mapping of the codes 0..3.
C14_KnownCodes ==
    (pc = "described" /\ \A i \in 1..Len(input) : C14_known(input[i])) =>
       /\ output.tag = "Ok"
       /\ \A i \in 1..Len(input) :
             \E k \in 1..Len(output.value["A"]) :
                /\ output.value["A"][k].constraint_name = Some(input[i].constraint_name)
                /\ output.value["A"][k].on_delete_action
                     = C14_action(input[i].delete_referential_action)
                /\ output.value["A"][k].on_update_action
                     = C14_action(input[i].update_referential_action)

\* A row with the unknown code 4 aborts the describer.
C14_UnknownCodeAborts ==
    /\ pc = "described"
    /\ \E i \in 1..Len(input) : input[i].update_referential_action = 4
    /\ output = DescriberAbort

(***************************************************************************)
(* MSSQL describer: the default of a column (get_all_columns)              *)
(*                                                                         *)
(* The catalog's default expression is a sequence of characters.           *)
(***************************************************************************)
matches_at(s, i, lit) ==
    /\ i >= 1
    /\ i + Len(lit) - 1 <= Len(s)
    /\ SubSeq(s, i, i + Len(lit) - 1) = lit

\* The first capture of the regex `open(.*)close` searched in s: the leftmost
\* start, the longest `.*`, which takes no line break.  None without a match.
regex_capture(s, open, close) ==
    LET ends(i) == { j \in (i + Len(open))..Len(s) :
                        /\ matches_at(s, j, close)
                        /\ \A k \in (i + Len(open))..(j - 1) : s[k] # "\n" }
        starts == { i \in 1..Len(s) : matches_at(s, i, open) /\ ends(i) # {} }
    IN IF starts = {} THEN None
       ELSE LET i == CHOOSE x \in starts : \A y \in starts : x <= y
                j == CHOOSE x \in ends(i) : \A y \in ends(i) : y <= x
            IN Some(SubSeq(s, i + Len(open), j - 1))

DEFAULT_NON_STRING(s) == regex_capture(s, <<"(", "(">>, <<")", ")">>)
DEFAULT_STRING(s) == regex_capture(s, <<"(", "'">>, <<"'", ")">>)
DEFAULT_DB_GEN(s) == regex_capture(s, <<"(">>, <<")">>)

\* parse_int: the text of an integer (the digits of this model have no
\* leading zero).
parse_int(s) ==
    IF s # <<>> /\ \A i \in 1..Len(s) : s[i] \in {"0", "1"} THEN Some(s) ELSE None

\* get_column_type: the family of a data type.
mssql_family_of(data_type) ==
    CASE data_type \in {"date", "time", "datetime", "datetime2", "smalldatetime",
                        "datetimeoffset"} -> "DateTime"
      [] data_type \in {"numeric", "decimal"} -> "Decimal"
      [] data_type \in {"float", "real", "smallmoney", "money"} -> "Float"
      [] data_type \in {"char", "nchar", "varchar", "nvarchar", "text", "ntext"} -> "String"
      [] data_type \in {"tinyint", "smallint", "int", "bigint"} -> "Int"
      [] data_type \in {"binary", "varbinary", "image"} -> "Binary"
      [] data_type = "uniqueidentifier" -> "Uuid"
      [] data_type = "bit" -> "Boolean"
      [] OTHER -> "Unsupported"

\* The default value of a family for the captured text.
mssql_default_of_text(family, default_string) ==
    CASE family = "Int" ->
            IF is_some(parse_int(default_string))
            THEN DefaultValue("VALUE", "Int", parse_int(default_string)[1], None)
            ELSE DefaultValue("DBGENERATED", "None", default_string, None)
      [] family = "Boolean" ->
            IF parse_int(default_string) = Some(<<"1">>)
            THEN DefaultValue("VALUE", "Boolean", <<"true">>, None)
            ELSE IF parse_int(default_string) = Some(<<"0">>)
            THEN DefaultValue("VALUE", "Boolean", <<"false">>, None)
            ELSE DefaultValue("DBGENERATED", "None", default_string, None)
      [] family = "String" -> DefaultValue("VALUE", "String", default_string, None)
      [] family = "DateTime" ->
            IF default_string = <<"g", "e", "t", "d", "a", "t", "e", "(", ")">>
            THEN DefaultValue("NOW", "None", <<>>, None)
            ELSE DefaultValue("DBGENERATED", "None", default_string, None)
      [] OTHER -> DefaultValue("DBGENERATED", "None", default_string, None)

\* The patterns in the order in which they are tried.
mssql_default_captures(default_string) ==
    IF is_some(DEFAULT_NON_STRING(default_string)) THEN DEFAULT_NON_STRING(default_string)
    ELSE IF is_some(DEFAULT_STRING(default_string)) THEN DEFAULT_STRING(default_string)
    ELSE DEFAULT_DB_GEN(default_string)

NullDefault == <<"(", "N", "U", "L", "L", ")">>

\* The column of a row, or the abort of expect() when no pattern matches.
mssql_column_of_row(col) ==
    LET family == mssql_family_of(col.data_type)
        arity == IF ~col.is_nullable THEN "Required" ELSE "Nullable"
        captured == mssql_default_captures(col.column_default[1])
        default ==
            IF is_none(col.column_default) THEN None
            ELSE IF col.column_default[1] = NullDefault THEN None
            ELSE Some([mssql_default_of_text(family, captured[1])
                         EXCEPT !.constraint_name = col.constraint_name])
    IN IF /\ is_some(col.column_default)
          /\ col.column_default[1] # NullDefault
          /\ is_none(captured)
       THEN DescriberAbort
       ELSE DescriberOk([table_name |-> col.table_name,
                         column |-> [Column(col.column_name, family, arity, col.is_identity,
                                            default)
                                       EXCEPT !.full_data_type = <<col.data_type>>]])

(***************************************************************************)
(* Inputs of get_all_columns: one row, column c of table A                 *)
(***************************************************************************)
DefaultCharacters == {"(", ")", "'", "1", "\n"}

DefaultTexts == SeqUpTo(DefaultCharacters, MaxStringLen)

\* The catalog text of a string default, and an expression given as it is.
string_default_of(s) == <<"(", "'">> \o s \o <<"'", ")">>

ColumnDefaults ==
    {None, Some(NullDefault), Some(<<"(", "g", "e", "t", "d", "a", "t", "e", "(", ")", ")">>)}
    \cup { Some(string_default_of(s)) : s \in DefaultTexts }
    \cup { Some(s) : s \in DefaultTexts }

ColumnRows ==
    { [table_name |-> "A", column_name |-> "c", data_type |-> data_type,
       is_nullable |-> TRUE, is_identity |-> FALSE, column_default |-> d,
       constraint_name |-> IF is_some(d) THEN Some("DF__A__c") ELSE None] :
        data_type \in {"nvarchar", "int", "datetime2"}, d \in ColumnDefaults }

InitMssqlColumns ==
    /\ pc = "get_all_columns"
    /\ input \in ColumnRows
    /\ output = <<>>
    /\ Idle

\* query_raw succeeded: the row is turned into a column.
GetAllColumns ==
    /\ pc = "get_all_columns"
    /\ output' = mssql_column_of_row(input)
    /\ pc' = "described"
    /\ UNCHANGED <<input, index, pos, executed, result>>

\* query_raw failed: `?` returns the error.
GetAllColumnsQueryErr ==
    /\ pc = "get_all_columns"
    /\ output' = DescriberErr
    /\ pc' = "query_failed"
    /\ UNCHANGED <<input, index, pos, executed, result>>

NextMssqlColumns == GetAllColumns \/ GetAllColumnsQueryErr

SpecMssqlColumns == InitMssqlColumns /\ [][NextMssqlColumns]_vars

(***************************************************************************)
(* C15  MSSQL describer: parsing of the default expression                 *)
(***************************************************************************)
C15_raw == input.column_default[1]

\* raw is ('s') for the string s.
C15_is_string_form(s) == C15_raw = <<"(", "'">> \o s \o <<"'", ")">>

C15_matches_none ==
    /\ DEFAULT_NON_STRING(C15_raw) = None
    /\ DEFAULT_STRING(C15_raw) = None
    /\ DEFAULT_DB_GEN(C15_raw) = None

\* The text taken by the first pattern that matches, in the claimed order.
C15_first_capture ==
    IF DEFAULT_NON_STRING(C15_raw) # None THEN DEFAULT_NON_STRING(C15_raw)[1]
    ELSE IF DEFAULT_STRING(C15_raw) # None THEN DEFAULT_STRING(C15_raw)[1]
    ELSE DEFAULT_DB_GEN(C15_raw)[1]

\* C15: (NULL) gives no default; otherwise the text is taken by the
\* double-parenthesis pattern, else the quoted-string pattern, else the
\* single-parenthesis pattern; ('s') on a string column gives Value(s) for every
\* s; an expression that matches no pattern gives DbGenerated(raw) and no abort.
C15_DefaultParsing ==
    (pc = "described" /\ input.column_default # None) =>
       /\ C15_raw = NullDefault => (output.tag = "Ok" /\ output.value.column.default = None)
       /\ (C15_raw # NullDefault /\ ~C15_matches_none /\ input.data_type = "nvarchar") =>
             /\ output.tag = "Ok"
             /\ output.value.column.default[1].val = C15_first_capture
       /\ input.data_type = "nvarchar" =>
             \A s \in DefaultTexts :
                C15_is_string_form(s) =>
                   /\ output.tag = "Ok"
                   /\ output.value.column.default[1].kind = "VALUE"
                   /\ output.value.column.default[1].val = s
       /\ C15_matches_none =>
             /\ output.tag = "Ok"
             /\ output.value.column.default[1].kind = "DBGENERATED"
             /\ output.value.column.default[1].val = C15_raw

\* What holds: (NULL) gives no default and the patterns are tried in the
\* claimed order.
C15_PatternOrder ==
    (pc = "described" /\ input.column_default # None) =>
       /\ C15_raw = NullDefault => (output.tag = "Ok" /\ output.value.column.default = None)
       /\ (C15_raw # NullDefault /\ ~C15_matches_none /\ input.data_type = "nvarchar") =>
             /\ output.tag = "Ok"
             /\ output.value.column.default[1].val = C15_first_capture

\* The string default '(())' is read as the empty string.
C15_StringTakenAsScalar ==
    /\ pc = "described"
    /\ input.data_type = "nvarchar"
    /\ input.column_default # None
    /\ C15_is_string_form(<<"(", "(", ")", ")">>)
    /\ output.tag = "Ok"
    /\ output.value.column.default[1].val = <<>>

\* A string default with a line break matches no pattern: the describer aborts.
C15_NoMatchAborts ==
    /\ pc = "described"
    /\ input.column_default # None
    /\ C15_is_string_form(<<"1", "\n", "1">>)
    /\ C15_matches_none
    /\ output = DescriberAbort

(***************************************************************************)
(* MSSQL differ: the change of the type of a column                        *)
(***************************************************************************)
\* ColumnTypeFamily; an enum family is told from another one by its name.
ColumnTypeFamilies ==
    {"Int", "BigInt", "Float", "Decimal", "Boolean", "String", "DateTime", "Binary",
     "Json", "Uuid", "Enum(a)", "Enum(b)", "Unsupported"}

\* Variant: the rule of the string target comes after the other ones.
MssqlFlavour_column_type_change_string_last(previous, next) ==
    IF previous = next THEN None
    ELSE CASE (previous = "String" /\ next = "Int")
              \/ (previous = "DateTime" /\ next = "Float")
              \/ (previous = "String" /\ next = "Float") -> Some("NotCastable")
           [] previous = "String" -> Some("SafeCast")
           [] OTHER -> Some("RiskyCast")

\* column_type_change of the families of the previous and the next column.
MssqlFlavour_column_type_change(previous, next) ==
    IF previous = next THEN None
    ELSE IF next = "String" THEN Some("SafeCast")
    ELSE IF \/ (previous = "String" /\ next = "Int")
            \/ (previous = "DateTime" /\ next = "Float")
            \/ (previous = "String" /\ next = "Float")
    THEN Some("NotCastable")
    ELSE Some("RiskyCast")

InitMssqlTypeChange ==
    /\ pc = "column_type_change"
    /\ input \in { Pair(p, n) : p \in ColumnTypeFamilies, n \in ColumnTypeFamilies }
    /\ output = <<>>
    /\ Idle

ColumnTypeChangeMssql ==
    /\ pc = "column_type_change"
    /\ output' = MssqlFlavour_column_type_change(input.previous, input.next)
    /\ pc' = "returned"
    /\ UNCHANGED <<input, index, pos, executed, result>>

SpecMssqlTypeChange == InitMssqlTypeChange /\ [][ColumnTypeChangeMssql]_vars

(***************************************************************************)
(* C16  MSSQL column_type_change over the pairs of families                *)
(***************************************************************************)
C16_not_castable ==
    { Pair("String", "Int"), Pair("String", "Float"), Pair("DateTime", "Float") }

\* C16: no change exactly when the two families are equal; SafeCast for a
\* different family changed to string; NotCastable for string to int, string to
\* float and datetime to float; RiskyCast for every other pair.
C16_TypeChange ==
    pc = "returned" =>
       /\ (output = None) <=> (input.previous = input.next)
       /\ (input.previous # input.next /\ input.next = "String") => output = Some("SafeCast")
       /\ input \in C16_not_castable => output = Some("NotCastable")
       /\ (input.previous # input.next /\ input.next # "String" /\ input \notin C16_not_castable)
             => output = Some("RiskyCast")

\* An integer column changed to a string one: a safe cast.
C16_Witness ==
    /\ pc = "returned"
    /\ input = Pair("Int", "String")
    /\ output = Some("SafeCast")

\* A cast that cannot be done, and a risky one.
C16_WitnessNotCastable ==
    /\ pc = "returned"
    /\ input = Pair("DateTime", "Float")
    /\ output = Some("NotCastable")

C16_WitnessRisky ==
    /\ pc = "returned"
    /\ input = Pair("Int", "Float")
    /\ output = Some("RiskyCast")

(***************************************************************************)
(* MSSQL destructive change checker                                        *)
(*                                                                         *)
(* The plan holds the warnings and the unexecutable checks, each with the  *)
(* index of its step.                                                      *)
(***************************************************************************)
push_warning(plan, check, step_index) ==
    [plan EXCEPT !.warnings = Append(@, [check |-> check, step_index |-> step_index])]

push_unexecutable(plan, check, step_index) ==
    [plan EXCEPT !.unexecutable_migrations =
                    Append(@, [check |-> check, step_index |-> step_index])]

\* columns is the pair of [table, column] of the previous and the next schema.
MssqlFlavour_check_alter_column(alter_column, columns, plan, step_index) ==
    IF only_default_changed(alter_column.changes) THEN plan
    ELSE IF arity_changed(alter_column.changes) /\ is_required(columns.next.column.arity)
    THEN push_unexecutable(plan,
                           [tag |-> "MadeOptionalFieldRequired",
                            column |-> columns.previous.column.name,
                            table |-> columns.previous.table],
                           step_index)
    ELSE IF alter_column.type_change = Some("RiskyCast")
    THEN push_warning(plan,
                      [tag |-> "RiskyCast",
                       table |-> columns.previous.table,
                       column |-> columns.previous.column.name,
                       previous_type |-> columns.previous.column.family,
                       next_type |-> columns.next.column.family],
                      step_index)
    ELSE plan

default_can_be_rendered(default) ==
    IF is_none(default) THEN FALSE
    ELSE CASE default[1].kind = "VALUE" -> TRUE
           [] default[1].kind = "DBGENERATED" -> default[1].val # <<>>
           [] default[1].kind = "NOW" -> TRUE
           [] default[1].kind = "SEQUENCE" -> FALSE

MssqlFlavour_check_drop_and_recreate_column(columns, changes, plan, step_index) ==
    IF /\ arity_changed(changes)
       /\ is_nullable(columns.previous.column.arity)
       /\ is_required(columns.next.column.arity)
       /\ ~default_can_be_rendered(columns.next.column.default)
    THEN push_unexecutable(plan,
                           [tag |-> "AddedRequiredFieldToTable",
                            column |-> columns.previous.column.name,
                            table |-> columns.previous.table],
                           step_index)
    ELSE IF is_required(columns.next.column.arity) /\ is_none(columns.next.column.default)
    THEN push_unexecutable(plan,
                           [tag |-> "DropAndRecreateRequiredColumn",
                            column |-> columns.previous.column.name,
                            table |-> columns.previous.table],
                           step_index)
    ELSE push_warning(plan,
                      [tag |-> "DropAndRecreateColumn",
                       column |-> columns.previous.column.name,
                       table |-> columns.previous.table],
                      step_index)

(***************************************************************************)
(* Inputs of the checker: column n of table Cat, as the differ hands it    *)
(* over (Arity is in the changes when the arities differ, TypeChanged when *)
(* column_type_change gives a change, Default when the defaults differ)    *)
(***************************************************************************)
SequenceDefault == Some(DefaultValue("SEQUENCE", "None", <<"Cat_n_seq">>, None))

CheckerDefaults ==
    {None, IntDefault, DbGeneratedDefault, EmptyDbGeneratedDefault, NowDefault, SequenceDefault}

\* An AlterColumn is made of a castable change, a DropAndRecreateColumn of one
\* that is not.
CheckerFamilies(call) ==
    IF call = "AlterColumn"
    THEN { Pair("Int", "Int"), Pair("Int", "String"), Pair("Int", "Float") }
    ELSE { Pair("String", "Int"), Pair("DateTime", "Float") }

checker_changes_of(previous, next) ==
    (IF previous.arity # next.arity THEN {"Arity"} ELSE {})
    \cup (IF previous.default # next.default THEN {"Default"} ELSE {})
    \cup (IF is_some(MssqlFlavour_column_type_change(previous.family, next.family))
          THEN {"TypeChanged"} ELSE {})

EmptyPlan == [warnings |-> <<>>, unexecutable_migrations |-> <<>>]

\* The plan before the call: empty, or with the warning of an earlier step.
CheckerPlans ==
    { EmptyPlan,
      push_warning(EmptyPlan, [tag |-> "NonEmptyTableDrop", table |-> "Dog"], 0) }

checker_input_of(call, families, arities, defaults, plan, step_index) ==
    LET previous == Column("n", families.previous, arities.previous, FALSE, defaults.previous)
        next == Column("n", families.next, arities.next, FALSE, defaults.next)
    IN [call |-> call,
        columns |-> Pair([table |-> "Cat", column |-> previous],
                         [table |-> "Cat", column |-> next]),
        changes |-> checker_changes_of(previous, next),
        type_change |-> MssqlFlavour_column_type_change(families.previous, families.next),
        plan |-> plan,
        step_index |-> step_index]

CheckerInputs ==
    { i \in { checker_input_of(call, families, Pair(pa, na), Pair(pd, nd), plan, step_index) :
                call \in {"AlterColumn", "DropAndRecreateColumn"},
                families \in CheckerFamilies("AlterColumn") \cup CheckerFamilies("DropAndRecreateColumn"),
                pa \in {"Required", "Nullable"}, na \in {"Required", "Nullable"},
                pd \in {None, IntDefault}, nd \in CheckerDefaults,
                plan \in CheckerPlans, step_index \in 0..MaxStepIndex } :
        /\ Pair(i.columns.previous.column.family, i.columns.next.column.family)
              \in CheckerFamilies(i.call)
        /\ i.changes # {} }

InitMssqlChecker ==
    /\ pc = "check"
    /\ input \in CheckerInputs
    /\ output = <<>>
    /\ Idle

CheckAlterColumn ==
    /\ pc = "check"
    /\ input.call = "AlterColumn"
    /\ output' = MssqlFlavour_check_alter_column(
                    [changes |-> input.changes, type_change |-> input.type_change],
                    input.columns, input.plan, input.step_index)
    /\ pc' = "checked"
    /\ UNCHANGED <<input, index, pos, executed, result>>

CheckDropAndRecreateColumn ==
    /\ pc = "check"
    /\ input.call = "DropAndRecreateColumn"
    /\ output' = MssqlFlavour_check_drop_and_recreate_column(
                    input.columns, input.changes, input.plan, input.step_index)
    /\ pc' = "checked"
    /\ UNCHANGED <<input, index, pos, executed, result>>

NextMssqlChecker == CheckAlterColumn \/ CheckDropAndRecreateColumn

SpecMssqlChecker == InitMssqlChecker /\ [][NextMssqlChecker]_vars

(***************************************************************************)
(* C17  MSSQL check_alter_column: the RiskyCast warning                    *)
(***************************************************************************)
\* The diagnostics that the call added to the plan.
C17_pushed_warnings ==
    SubSeq(output.warnings, Len(input.plan.warnings) + 1, Len(output.warnings))

C17_pushed_unexecutable ==
    SubSeq(output.unexecutable_migrations, Len(input.plan.unexecutable_migrations) + 1,
           Len(output.unexecutable_migrations))

C17_risky_cast_warning ==
    [check |-> [tag |-> "RiskyCast", table |-> "Cat", column |-> "n",
                previous_type |-> input.columns.previous.column.family,
                next_type |-> input.columns.next.column.family],
     step_index |-> input.step_index]

\* C17: for every AlterColumn whose type_change is RiskyCast the checker pushes
\* a RiskyCast warning with the index of the step, also when the AlterColumn
\* changes the arity to required; an AlterColumn that only changes the default
\* gives no diagnostic.
C17_RiskyCastWarning ==
    (pc = "checked" /\ input.call = "AlterColumn") =>
       /\ input.type_change = Some("RiskyCast") =>
             \E i \in 1..Len(C17_pushed_warnings) :
                C17_pushed_warnings[i] = C17_risky_cast_warning
       /\ input.changes = {"Default"} => output = input.plan

\* What holds: the warning is pushed unless the arity changes to required, and
\* an AlterColumn of the default alone gives no diagnostic.
C17_RiskyCastUnlessRequired ==
    (pc = "checked" /\ input.call = "AlterColumn") =>
       /\ (/\ input.type_change = Some("RiskyCast")
           /\ ~("Arity" \in input.changes /\ input.columns.next.column.arity = "Required")) =>
             /\ C17_pushed_warnings = <<C17_risky_cast_warning>>
             /\ C17_pushed_unexecutable = <<>>
       /\ input.changes = {"Default"} => output = input.plan

\* A risky cast of a column made required: no warning, the one diagnostic is
\* the unexecutable MadeOptionalFieldRequired.
C17_RiskyCastNotWarned ==
    /\ pc = "checked"
    /\ input.call = "AlterColumn"
    /\ input.type_change = Some("RiskyCast")
    /\ input.changes = {"Arity", "TypeChanged"}
    /\ input.columns.next.column.arity = "Required"
    /\ C17_pushed_warnings = <<>>
    /\ Len(C17_pushed_unexecutable) = 1
    /\ C17_pushed_unexecutable[1].check.tag = "MadeOptionalFieldRequired"

(***************************************************************************)
(* C18  MSSQL check_drop_and_recreate_column                               *)
(***************************************************************************)
\* No default, an empty DbGenerated expression or a sequence.
C18_no_usable_default ==
    \/ input.columns.next.column.default = None
    \/ /\ input.columns.next.column.default # None
       /\ \/ input.columns.next.column.default[1].kind = "SEQUENCE"
          \/ /\ input.columns.next.column.default[1].kind = "DBGENERATED"
             /\ input.columns.next.column.default[1].val = <<>>

C18_pushed ==
    (Len(output.warnings) - Len(input.plan.warnings))
    + (Len(output.unexecutable_migrations) - Len(input.plan.unexecutable_migrations))

\* C18: every call pushes exactly one diagnostic, and it is an unexecutable one
\* whenever the recreated column is required and has no usable default.
C18_DropAndRecreate ==
    (pc = "checked" /\ input.call = "DropAndRecreateColumn") =>
       /\ C18_pushed = 1
       /\ (input.columns.next.column.arity = "Required" /\ C18_no_usable_default) =>
             Len(output.unexecutable_migrations) = Len(input.plan.unexecutable_migrations) + 1

\* What holds: one diagnostic per call; unexecutable when the required column
\* has no default at all, or no usable one and was nullable before.
C18_OneDiagnostic ==
    (pc = "checked" /\ input.call = "DropAndRecreateColumn") =>
       /\ C18_pushed = 1
       /\ SubSeq(output.warnings, 1, Len(input.plan.warnings)) = input.plan.warnings
       /\ (/\ input.columns.next.column.arity = "Required"
           /\ C18_no_usable_default
           /\ \/ input.columns.next.column.default = None
              \/ input.columns.previous.column.arity = "Nullable") =>
             Len(output.unexecutable_migrations) = Len(input.plan.unexecutable_migrations) + 1

\* A required column recreated as a required one with an empty DbGenerated
\* default: the one diagnostic is the warning DropAndRecreateColumn.
C18_OnlyWarned ==
    /\ pc = "checked"
    /\ input.call = "DropAndRecreateColumn"
    /\ input.columns.previous.column.arity = "Required"
    /\ input.columns.next.column.arity = "Required"
    /\ input.columns.next.column.default = EmptyDbGeneratedDefault
    /\ output.unexecutable_migrations = input.plan.unexecutable_migrations
    /\ Len(output.warnings) = Len(input.plan.warnings) + 1
    /\ output.warnings[Len(output.warnings)].check.tag = "DropAndRecreateColumn"

(***************************************************************************)
(* MSSQL flavour: sql_schema_from_migration_history                        *)
(*                                                                         *)
(* The server holds its databases, the schemas of each database and the    *)
(* migrations whose script ran on the shadow database.  A statement is its *)
(* text together with what the server reads in it.                         *)
(***************************************************************************)
MssqlFlavour_schema_name == "dbo"

shadow_database_name(uuid) == "prisma_migrations_shadow_database_" \o uuid

\* The statement bound to drop_database.
shadow_drop_database(database) ==
    [tag |-> "IfNoDatabaseCreateSchema", database |-> database, schema |-> database,
     sql |-> "IF NOT EXISTS (SELECT * FROM sys.databases WHERE name = N'" \o database
             \o "') EXEC('CREATE SCHEMA [" \o database \o "]')"]

shadow_create_database(database) ==
    [tag |-> "CreateDatabase", database |-> database,
     sql |-> "CREATE DATABASE [" \o database \o "]"]

shadow_create_schema(schema) ==
    [tag |-> "IfNoSchemaCreateSchema", schema |-> schema,
     sql |-> "IF NOT EXISTS (SELECT * FROM sys.schemas WHERE name = N'" \o schema
             \o "') EXEC('CREATE SCHEMA [" \o schema \o "]')"]

shadow_script(migration) ==
    [tag |-> "Script", migration_name |-> migration.name, sql |-> migration.script[1]]

\* The server after the statement ran on a connection to the database `on`.
mssql_execute(server, on, statement) ==
    CASE statement.tag = "IfNoDatabaseCreateSchema" ->
            IF statement.database \notin server.databases
            THEN [server EXCEPT !.schemas = @ \cup {<<on, statement.schema>>}]
            ELSE server
      [] statement.tag = "CreateDatabase" ->
            [server EXCEPT !.databases = @ \cup {statement.database},
                           !.schemas = @ \cup {<<statement.database, "dbo">>}]
      [] statement.tag = "IfNoSchemaCreateSchema" ->
            [server EXCEPT !.schemas = @ \cup {<<on, statement.schema>>}]
      [] statement.tag = "Script" ->
            [server EXCEPT !.scripts = Append(@, statement.migration_name)]

\* describe_schema of the shadow database: what the scripts made.
shadow_describe_schema(server) == [migrations |-> server.scripts]

ConnectorOk(value) == [tag |-> "Ok", value |-> value]

ConnectorErr(kind) == [tag |-> "Err", kind |-> kind, migration_name |-> None]

\* into_migration_does_not_apply_cleanly(migration_name).
into_migration_does_not_apply_cleanly(connector_error, migration_name) ==
    [tag |-> "Err", kind |-> "MigrationDoesNotApplyCleanly",
     migration_name |-> Some(migration_name), source |-> connector_error.kind]

(***************************************************************************)
(* Inputs: the migration directories, and the uuid of the call             *)
(***************************************************************************)
Uuids == {"0a1b", "7c9d"}

\* Two directories with a script, one whose script file cannot be read.
MigrationDirectories ==
    { [name |-> "001_init", script |-> Some("CREATE TABLE [dbo].[Cat] ([id] int)")],
      [name |-> "002_dog", script |-> Some("CREATE TABLE [dbo].[Dog] ([id] int)")],
      [name |-> "003_lost", script |-> None] }

MigrationHistories == SeqUpTo(MigrationDirectories, MaxMigrations)

\* The database of the connection.
MainDatabase == "app"

InitShadow ==
    /\ pc = "drop_database"
    /\ input \in [migrations : MigrationHistories, uuid : Uuids]
    /\ output = [server |-> [databases |-> {MainDatabase},
                             schemas |-> {<<MainDatabase, "dbo">>},
                             scripts |-> <<>>],
                 sql_schema |-> None]
    /\ index = 1
    /\ pos = 0
    /\ executed = <<>>
    /\ result = [tag |-> "None"]

shadow_database == shadow_database_name(input.uuid)

\* Where the loop goes: the next migration, or describe_schema after the last.
shadow_loop_pc(i) == IF i <= Len(input.migrations) THEN "read_migration_script" ELSE "describe_schema"

shadow_raw_cmd(on, statement) ==
    /\ output' = [output EXCEPT !.server = mssql_execute(@, on, statement)]
    /\ executed' = Append(executed, [on |-> on, sql |-> statement.sql, ok |-> TRUE])

shadow_raw_cmd_err(on, statement) ==
    /\ executed' = Append(executed, [on |-> on, sql |-> statement.sql, ok |-> FALSE])
    /\ UNCHANGED output

\* connection.raw_cmd(&drop_database).await, before the database is created.
ShadowDropDatabase ==
    /\ pc = "drop_database"
    /\ shadow_raw_cmd(MainDatabase, shadow_drop_database(shadow_database))
    /\ pc' = "create_database"
    /\ UNCHANGED <<input, index, pos, result>>

ShadowDropDatabaseErr ==
    /\ pc = "drop_database"
    /\ shadow_raw_cmd_err(MainDatabase, shadow_drop_database(shadow_database))
    /\ result' = ConnectorErr("Query")
    /\ pc' = "returned"
    /\ UNCHANGED <<input, index, pos>>

ShadowCreateDatabase ==
    /\ pc = "create_database"
    /\ shadow_raw_cmd(MainDatabase, shadow_create_database(shadow_database))
    /\ pc' = "connect"
    /\ UNCHANGED <<input, index, pos, result>>

ShadowCreateDatabaseErr ==
    /\ pc = "create_database"
    /\ shadow_raw_cmd_err(MainDatabase, shadow_create_database(shadow_database))
    /\ result' = ConnectorErr("Query")
    /\ pc' = "returned"
    /\ UNCHANGED <<input, index, pos>>

\* crate::connect(&temporary_database_url).await
ShadowConnect ==
    /\ pc = "connect"
    /\ pc' = "create_schema"
    /\ UNCHANGED <<input, output, index, pos, executed, result>>

ShadowConnectErr ==
    /\ pc = "connect"
    /\ result' = ConnectorErr("Connect")
    /\ pc' = "returned"
    /\ UNCHANGED <<input, output, index, pos, executed>>

ShadowCreateSchema ==
    /\ pc = "create_schema"
    /\ shadow_raw_cmd(shadow_database, shadow_create_schema(MssqlFlavour_schema_name))
    /\ pc' = shadow_loop_pc(index)
    /\ UNCHANGED <<input, index, pos, result>>

ShadowCreateSchemaErr ==
    /\ pc = "create_schema"
    /\ shadow_raw_cmd_err(shadow_database, shadow_create_schema(MssqlFlavour_schema_name))
    /\ result' = ConnectorErr("Query")
    /\ pc' = "returned"
    /\ UNCHANGED <<input, index, pos>>

\* migration.read_migration_script()?
ReadMigrationScript ==
    /\ pc = "read_migration_script"
    /\ IF is_some(input.migrations[index].script)
       THEN /\ pc' = "raw_cmd_script"
            /\ UNCHANGED result
       ELSE /\ pc' = "returned"
            /\ result' = ConnectorErr("ReadMigrationScript")
    /\ UNCHANGED <<input, output, index, pos, executed>>

\* temporary_database.raw_cmd(&script).await succeeded.
ShadowApplyScript ==
    /\ pc = "raw_cmd_script"
    /\ shadow_raw_cmd(shadow_database, shadow_script(input.migrations[index]))
    /\ index' = index + 1
    /\ pc' = shadow_loop_pc(index + 1)
    /\ UNCHANGED <<input, pos, result>>

\* Variant: the failure of a script is passed over.
ShadowApplyScriptErr_go_on ==
    /\ pc = "raw_cmd_script"
    /\ shadow_raw_cmd_err(shadow_database, shadow_script(input.migrations[index]))
    /\ index' = index + 1
    /\ pc' = shadow_loop_pc(index + 1)
    /\ UNCHANGED <<input, pos, result>>

\* The script failed: the error is given the name of the migration and returned.
ShadowApplyScriptErr ==
    /\ pc = "raw_cmd_script"
    /\ shadow_raw_cmd_err(shadow_database, shadow_script(input.migrations[index]))
    /\ result' = into_migration_does_not_apply_cleanly(ConnectorErr("Query"),
                                                       input.migrations[index].name)
    /\ pc' = "returned"
    /\ UNCHANGED <<input, index, pos>>

\* self.describe_schema(&temporary_database).await
ShadowDescribeSchema ==
    /\ pc = "describe_schema"
    /\ output' = [output EXCEPT !.sql_schema = Some(shadow_describe_schema(output.server))]
    /\ executed' = Append(executed, [on |-> shadow_database, sql |-> "describe", ok |-> TRUE])
    /\ pc' = "drop_database_again"
    /\ UNCHANGED <<input, index, pos, result>>

ShadowDescribeSchemaErr ==
    /\ pc = "describe_schema"
    /\ executed' = Append(executed, [on |-> shadow_database, sql |-> "describe", ok |-> FALSE])
    /\ result' = ConnectorErr("Query")
    /\ pc' = "returned"
    /\ UNCHANGED <<input, output, index, pos>>

\* The describer aborts on a catalog row that it does not expect.
ShadowDescribeSchemaAbort ==
    /\ pc = "describe_schema"
    /\ executed' = Append(executed, [on |-> shadow_database, sql |-> "describe", ok |-> FALSE])
    /\ pc' = "aborted"
    /\ UNCHANGED <<input, output, index, pos, result>>

\* connection.raw_cmd(&drop_database).await, after the schema was described.
ShadowDropDatabaseAgain ==
    /\ pc = "drop_database_again"
    /\ shadow_raw_cmd(MainDatabase, shadow_drop_database(shadow_database))
    /\ result' = ConnectorOk(output.sql_schema[1])
    /\ pc' = "returned"
    /\ UNCHANGED <<input, index, pos>>

ShadowDropDatabaseAgainErr ==
    /\ pc = "drop_database_again"
    /\ shadow_raw_cmd_err(MainDatabase, shadow_drop_database(shadow_database))
    /\ result' = ConnectorErr("Query")
    /\ pc' = "returned"
    /\ UNCHANGED <<input, index, pos>>

NextShadow ==
    \/ ShadowDropDatabase
    \/ ShadowDropDatabaseErr
    \/ ShadowCreateDatabase
    \/ ShadowCreateDatabaseErr
    \/ ShadowConnect
    \/ ShadowConnectErr
    \/ ShadowCreateSchema
    \/ ShadowCreateSchemaErr
    \/ ReadMigrationScript
    \/ ShadowApplyScript
    \/ ShadowApplyScriptErr
    \/ ShadowDescribeSchema
    \/ ShadowDescribeSchemaErr
    \/ ShadowDescribeSchemaAbort
    \/ ShadowDropDatabaseAgain
    \/ ShadowDropDatabaseAgainErr

SpecShadow == InitShadow /\ [][NextShadow]_vars

(***************************************************************************)
(* C19  The shadow database is gone when the call returns                  *)
(***************************************************************************)
\* The call created the database.
C19_created ==
    \E i \in 1..Len(executed) :
       /\ executed[i].sql = "CREATE DATABASE [prisma_migrations_shadow_database_"
                            \o input.uuid \o "]"
       /\ executed[i].ok

C19_exists ==
    ("prisma_migrations_shadow_database_" \o input.uuid) \in output.server.databases

\* C19: on every return path (success, a script that fails, a describe
\* failure) the database prisma_migrations_shadow_database_<uuid> that the call
\* created no longer exists on the server.
C19_Throwaway ==
    (pc = "returned" /\ C19_created) => ~C19_exists

\* What the call does: once created, the database stays, whatever the path.
C19_NeverDropped ==
    C19_created => C19_exists

\* The call succeeded, the last statement ran, and the database is still there;
\* the first statement left a schema of the database's name in the main database.
C19_LeftAfterSuccess ==
    /\ pc = "returned"
    /\ result.tag = "Ok"
    /\ Len(input.migrations) = 2
    /\ C19_exists
    /\ <<MainDatabase, "prisma_migrations_shadow_database_" \o input.uuid>>
          \in output.server.schemas

\* A script failed and the database is still there.
C19_LeftAfterFailure ==
    /\ pc = "returned"
    /\ result.tag = "Err"
    /\ result.kind = "MigrationDoesNotApplyCleanly"
    /\ C19_exists

(***************************************************************************)
(* C20  The scripts are applied in the order of the list                   *)
(***************************************************************************)
\* The calls made on the shadow database after its schema was created: the
\* scripts and describe_schema.
C20_calls ==
    filter(executed, LAMBDA e : e.on # MainDatabase /\ e.sql # shadow_create_schema("dbo").sql)

C20_scripts == filter(C20_calls, LAMBDA e : e.sql # "describe")

C20_failed == any(C20_scripts, LAMBDA e : ~e.ok)

\* C20: the scripts are applied in the order of the list, each one only after
\* the previous one succeeded; when a script fails no later script is applied,
\* the schema is not described and the returned error names the failing
\* migration as not applying cleanly.
C20_ListOrder ==
    LET n == Len(C20_scripts)
    IN /\ n <= Len(input.migrations)
       /\ \A i \in 1..n :
             /\ C20_scripts[i].sql = input.migrations[i].script[1]
             /\ i < n => C20_scripts[i].ok
       /\ output.server.scripts
             = [i \in 1..Len(output.server.scripts) |-> input.migrations[i].name]
       /\ Len(output.server.scripts) = Len(filter(C20_scripts, LAMBDA e : e.ok))
       /\ C20_failed =>
             /\ pc = "returned"
             /\ C20_calls[Len(C20_calls)] = C20_scripts[n]
             /\ output.sql_schema = None
             /\ result.tag = "Err"
             /\ result.kind = "MigrationDoesNotApplyCleanly"
             /\ result.migration_name = Some(input.migrations[n].name)

\* The first script ran, the second one failed and the call returned.
C20_Witness ==
    /\ pc = "returned"
    /\ Len(C20_scripts) = 2
    /\ C20_scripts[1].ok
    /\ ~C20_scripts[2].ok
    /\ input.migrations[1].name = "001_init"
    /\ result.migration_name = Some("002_dog")

\* Both scripts ran in the order of the list and the schema was described.
C20_WitnessAllApplied ==
    /\ pc = "returned"
    /\ result.tag = "Ok"
    /\ Len(input.migrations) = 2
    /\ input.migrations[1].name = "002_dog"
    /\ input.migrations[2].name = "001_init"
    /\ result.value = [migrations |-> <<"002_dog", "001_init">>]

(***************************************************************************)
(* Inputs of get_foreign_keys: foreign keys of one to three columns of the *)
(* tables A and C, the rows ordered by ordinal                             *)
(***************************************************************************)
ForeignKeyMergeShapes ==
    [table : {"A", "C"}, columns : {<<"a">>, <<"b", "a">>, <<"c", "a", "b">>}]

fk_merge_row(shapes, k, ord) ==
    [table_name |-> shapes[k].table,
     constraint_name |-> "fk" \o ToString(k),
     column_name |-> shapes[k].columns[ord],
     referenced_table_name |-> "B",
     referenced_column_name |-> <<"x", "y", "z">>[ord],
     delete_referential_action |-> 0,
     update_referential_action |-> 1,
     ordinal_position |-> ord]

\* ORDER BY ordinal_position: the rows of ordinal 1, then 2, then 3; the order
\* among the rows of one ordinal is the catalog's.
fk_merge_rows(shapes, reversed) ==
    LET ks == IF reversed THEN [i \in 1..Len(shapes) |-> Len(shapes) + 1 - i]
              ELSE [i \in 1..Len(shapes) |-> i]
        at(ord) == SelectSeq(ks, LAMBDA k : Len(shapes[k].columns) >= ord)
        rows(ord) == [i \in 1..Len(at(ord)) |-> fk_merge_row(shapes, at(ord)[i], ord)]
    IN rows(1) \o rows(2) \o rows(3)

ForeignKeyMergeCatalogs ==
    { fk_merge_rows(shapes, reversed) :
        shapes \in SeqUpTo(ForeignKeyMergeShapes, MaxForeignKeys), reversed \in BOOLEAN }

InitMssqlForeignKeyMerge ==
    /\ pc = "get_foreign_keys"
    /\ input \in ForeignKeyMergeCatalogs
    /\ output = <<>>
    /\ Idle

SpecMssqlForeignKeyMerge == InitMssqlForeignKeyMerge /\ [][NextMssqlForeignKeys]_vars

(***************************************************************************)
(* C21  MSSQL describer: the merge of the foreign-key rows                 *)
(***************************************************************************)
C21_tables == { input[i].table_name : i \in 1..Len(input) }

C21_constraints(t) ==
    { input[i].constraint_name : i \in { j \in 1..Len(input) : input[j].table_name = t } }

C21_rows(t, c) ==
    { i \in 1..Len(input) : input[i].table_name = t /\ input[i].constraint_name = c }

\* C21: the rows are grouped by (table, constraint name); every foreign key
\* has as many referenced columns as constrained columns, one pair per row, and
\* the pair at position k (from 0) comes from the row of ordinal k + 1.
C21_Merge ==
    pc = "described" =>
       /\ output.tag = "Ok"
       /\ DOMAIN output.value = C21_tables
       /\ \A t \in C21_tables :
             /\ Len(output.value[t]) = Cardinality(C21_constraints(t))
             /\ \A c \in C21_constraints(t) :
                   \E k \in 1..Len(output.value[t]) :
                      LET fk == output.value[t][k]
                      IN /\ fk.constraint_name = Some(c)
                         /\ Len(fk.columns) = Cardinality(C21_rows(t, c))
                         /\ Len(fk.referenced_columns) = Len(fk.columns)
                         /\ \A i \in C21_rows(t, c) :
                               /\ fk.columns[input[i].ordinal_position] = input[i].column_name
                               /\ fk.referenced_columns[input[i].ordinal_position]
                                     = input[i].referenced_column_name

\* Two foreign keys of three and two columns of the same table, their rows
\* interleaved, are merged.
C21_Witness ==
    /\ pc = "described"
    /\ Len(input) = 5
    /\ input[1].constraint_name # input[2].constraint_name
    /\ C21_tables = {"A"}
    /\ output.tag = "Ok"
    /\ \E k \in 1..2 :
          /\ output.value["A"][k].columns = <<"c", "a", "b">>
          /\ output.value["A"][k].referenced_columns = <<"x", "y", "z">>

\* Foreign keys of two tables are kept apart.
C21_WitnessTwoTables ==
    /\ pc = "described"
    /\ C21_tables = {"A", "C"}
    /\ Len(input) = 4
    /\ output.tag = "Ok"
    /\ Len(output.value["A"]) = 1
    /\ Len(output.value["C"]) = 1

(***************************************************************************)
(* Inputs of the SQLite CREATE TABLE: values of sql_ddl::sqlite::CreateTable*)
(* given to Display, and tables of a schema given to render_create_table_as*)
(***************************************************************************)
DdlColumns ==
    { [name |-> "id", type |-> "integer", not_null |-> FALSE, primary_key |-> TRUE,
       default |-> None],
      [name |-> "id", type |-> "integer", not_null |-> FALSE, primary_key |-> FALSE,
       default |-> None],
      [name |-> "name", type |-> "text", not_null |-> TRUE, primary_key |-> FALSE,
       default |-> None],
      [name |-> "boxId", type |-> "uuid", not_null |-> FALSE, primary_key |-> FALSE,
       default |-> None],
      [name |-> "boxId", type |-> "uuid", not_null |-> FALSE, primary_key |-> FALSE,
       default |-> Some(<<"'maybe_a_uuid_idk'">>)] }

DdlForeignKeys ==
    { [constrains |-> <<"boxId">>, references |-> <<"Box", <<"id", "material">> >>,
       constraint_name |-> None, on_delete |-> None],
      [constrains |-> <<"id">>, references |-> <<"meow", <<"id">> >>,
       constraint_name |-> Some("meowConstraint"), on_delete |-> None],
      [constrains |-> <<"id", "boxId">>, references |-> <<"Box", <<"a", "b">> >>,
       constraint_name |-> None, on_delete |-> Some("NoAction")],
      [constrains |-> <<"id">>, references |-> <<"Box", <<"id">> >>,
       constraint_name |-> Some("fk"), on_delete |-> Some("Cascade")] }

DdlCreateTables ==
    { [table_name |-> "Cat", columns |-> columns, primary_key |-> primary_key,
       foreign_keys |-> foreign_keys] :
        columns \in SeqUpTo(DdlColumns, MaxDdlColumns) \ {<<>>},
        primary_key \in {None, Some(<<"id">>), Some(<<"id", "boxId">>)},
        foreign_keys \in SeqUpTo(DdlForeignKeys, MaxForeignKeys) }

\* Tables of a schema: no key, a key of one column, a key of two columns.
SqliteTableColumns ==
    { <<Column("id", "Int", "Required", FALSE, None)>>,
      <<Column("id", "Int", "Required", TRUE, None),
        Column("boxId", "String", "Nullable", FALSE, StringDefault)>>,
      <<Column("boxId", "String", "Required", FALSE, None),
        Column("id", "Int", "Required", FALSE, IntDefault)>> }

SqliteTableForeignKeys ==
    { ForeignKey(cname, <<"id">>, "Box", <<"id">>, on_delete, "Cascade") :
        cname \in {None, Some("fk")},
        on_delete \in {"NoAction", "Restrict", "Cascade", "SetNull", "SetDefault"} }

SqliteTables ==
    { t \in { Table("Cat", columns, primary_key, <<>>, foreign_keys) :
                 columns \in SqliteTableColumns,
                 primary_key \in {None,
                                  Some([columns |-> <<"id">>, constraint_name |-> None]),
                                  Some([columns |-> <<"id", "boxId">>, constraint_name |-> None]),
                                  Some([columns |-> <<"boxId", "id">>, constraint_name |-> None])},
                 foreign_keys \in SeqUpTo(SqliteTableForeignKeys, MaxForeignKeys) } :
        \* the columns of the key are columns of the table
        t.primary_key # None =>
           \A i \in 1..Len(t.primary_key[1].columns) :
              \E j \in 1..Len(t.columns) : t.columns[j].name = t.primary_key[1].columns[i] }

InitSqliteCreateTable ==
    /\ pc = "create_table"
    /\ input \in { [call |-> "Display", create_table |-> ct] : ct \in DdlCreateTables }
                 \cup { [call |-> "render_create_table_as", table |-> t, table_name |-> n] :
                          t \in SqliteTables, n \in {"Cat", "new_Cat"} }
    /\ output = <<>>
    /\ Idle

\* create_table.to_string()
DisplayCreateTableSqlite ==
    /\ pc = "create_table"
    /\ input.call = "Display"
    /\ output' = ddl_sqlite_CreateTable_fmt(input.create_table)
    /\ pc' = "rendered"
    /\ UNCHANGED <<input, index, pos, executed, result>>

RenderCreateTableAsSqlite ==
    /\ pc = "create_table"
    /\ input.call = "render_create_table_as"
    /\ output' = SqliteFlavour_render_create_table_as(input.table, input.table_name)
    /\ pc' = "rendered"
    /\ UNCHANGED <<input, index, pos, executed, result>>

NextSqliteCreateTable == DisplayCreateTableSqlite \/ RenderCreateTableAsSqlite

SpecSqliteCreateTable == InitSqliteCreateTable /\ [][NextSqliteCreateTable]_vars

(***************************************************************************)
(* C22  SQLite CREATE TABLE                                                *)
(***************************************************************************)
C22_names(names) ==
    str(join([i \in 1..Len(names) |-> <<"\"" \o names[i] \o "\"">>], ", "))

C22_column(c) ==
    "\"" \o c.name \o "\" " \o c.type
    \o (IF c.not_null THEN " NOT NULL" ELSE "")
    \o (IF c.primary_key THEN " PRIMARY KEY" ELSE "")
    \o (IF c.default # None THEN " DEFAULT " \o str(c.default[1]) ELSE "")

C22_foreign_key(fk) ==
    (IF fk.constraint_name # None THEN "CONSTRAINT \"" \o fk.constraint_name[1] \o "\" " ELSE "")
    \o "FOREIGN KEY (" \o C22_names(fk.constrains) \o ") REFERENCES \""
    \o fk.references[1] \o "\" (" \o C22_names(fk.references[2]) \o ")"
    \o (IF fk.on_delete \in {None, Some("NoAction")} THEN ""
        ELSE CASE fk.on_delete[1] = "Restrict" -> " ON DELETE RESTRICT"
               [] fk.on_delete[1] = "Cascade" -> " ON DELETE CASCADE"
               [] fk.on_delete[1] = "SetNull" -> " ON DELETE SET NULL"
               [] fk.on_delete[1] = "SetDefault" -> " ON DELETE SET DEFAULT")

\* The entries between the parentheses: the columns, the key, the foreign keys.
C22_entries(ct) ==
    [i \in 1..Len(ct.columns) |-> <<"    " \o C22_column(ct.columns[i])>>]
    \o (IF ct.primary_key # None
        THEN << <<"\n    PRIMARY KEY (" \o C22_names(ct.primary_key[1]) \o ")">> >>
        ELSE <<>>)
    \o [i \in 1..Len(ct.foreign_keys) |-> <<"    " \o C22_foreign_key(ct.foreign_keys[i])>>]

C22_text(ct) ==
    "CREATE TABLE \"" \o ct.table_name \o "\" (\n" \o str(join(C22_entries(ct), ",\n")) \o "\n)"

\* The number of columns rendered with an inline PRIMARY KEY, and of table-level
\* PRIMARY KEY clauses.
C22_inline == Len(filter(output, LAMBDA tok : tok = " PRIMARY KEY"))
C22_table_level == Len(filter(output, LAMBDA tok : tok = "PRIMARY KEY ("))

\* C22: Display lists the columns in order, then the PRIMARY KEY clause when
\* one is set, then the foreign keys in order (constraint name only when
\* present, no ON DELETE clause for NO ACTION); render_create_table_as renders
\* the primary key of a table exactly once, inline for a single-column key, as
\* the table-level clause otherwise.
C22_CreateTable ==
    pc = "rendered" =>
       /\ input.call = "Display" => str(output) = C22_text(input.create_table)
       /\ input.call = "render_create_table_as" =>
             /\ "!panic" \notin { output[i] : i \in 1..Len(output) }
             /\ IF input.table.primary_key = None
                THEN C22_inline = 0 /\ C22_table_level = 0
                ELSE IF Len(input.table.primary_key[1].columns) = 1
                THEN C22_inline = 1 /\ C22_table_level = 0
                ELSE C22_inline = 0 /\ C22_table_level = 1

\* A key of one column is rendered on the column.
C22_Witness ==
    /\ pc = "rendered"
    /\ input.call = "render_create_table_as"
    /\ str(output) = "CREATE TABLE \"new_Cat\" (\n    \"id\" INTEGER NOT NULL PRIMARY KEY,\n"
                     \o "    \"boxId\" TEXT DEFAULT 'o''k',\n"
                     \o "    CONSTRAINT \"fk\" FOREIGN KEY (\"id\") REFERENCES \"Box\" (\"id\")\n)"

\* A key of two columns is rendered as the table-level clause.
C22_WitnessTableLevel ==
    /\ pc = "rendered"
    /\ input.call = "render_create_table_as"
    /\ str(output) = "CREATE TABLE \"Cat\" (\n    \"boxId\" TEXT NOT NULL,\n"
                     \o "    \"id\" INTEGER NOT NULL DEFAULT 1,\n\n"
                     \o "    PRIMARY KEY (\"id\", \"boxId\")\n)"

\* The three renderings that the tests of the library expect, and a column
\* that is not null.
C22_WitnessBasic ==
    /\ pc = "rendered"
    /\ input.call = "Display"
    /\ str(output) = "CREATE TABLE \"Cat\" (\n    \"id\" integer PRIMARY KEY,\n    \"boxId\" uuid\n)"

C22_WitnessPrimaryKey ==
    /\ pc = "rendered"
    /\ input.call = "Display"
    /\ input.create_table.foreign_keys = <<>>
    /\ str(output) = "CREATE TABLE \"Cat\" (\n    \"id\" integer,\n"
                     \o "    \"boxId\" uuid DEFAULT 'maybe_a_uuid_idk',\n\n"
                     \o "    PRIMARY KEY (\"id\", \"boxId\")\n)"

C22_WitnessForeignKeys ==
    /\ pc = "rendered"
    /\ input.call = "Display"
    /\ str(output) = "CREATE TABLE \"Cat\" (\n    \"id\" integer,\n"
                     \o "    \"boxId\" uuid DEFAULT 'maybe_a_uuid_idk',\n\n"
                     \o "    PRIMARY KEY (\"id\", \"boxId\"),\n"
                     \o "    FOREIGN KEY (\"boxId\") REFERENCES \"Box\" (\"id\", \"material\"),\n"
                     \o "    CONSTRAINT \"meowConstraint\" FOREIGN KEY (\"id\") REFERENCES \"meow\" (\"id\")\n)"

C22_WitnessNotNull ==
    /\ pc = "rendered"
    /\ input.call = "Display"
    /\ str(output) = "CREATE TABLE \"Cat\" (\n    \"name\" text NOT NULL\n)"

(***************************************************************************)
(* The statements of a redefinition run on the server                      *)
(*                                                                         *)
(* The catalog holds the tables, the foreign keys, the unique constraints  *)
(* and the indexes of the database.  A statement is run when the objects   *)
(* that it names exist; the first statement that cannot be run fails the   *)
(* migration.                                                              *)
(***************************************************************************)
mssql_catalog_of(schema) ==
    [tables |-> { schema[t].name : t \in 1..Len(schema) },
     foreign_keys |->
        UNION { { [table |-> schema[t].name,
                   name |-> schema[t].foreign_keys[k].constraint_name[1],
                   referenced_table |-> schema[t].foreign_keys[k].referenced_table] :
                    k \in 1..Len(schema[t].foreign_keys) } : t \in 1..Len(schema) },
     constraints |->
        UNION { { <<schema[t].name, replace_dot(schema[t].indexes[k].name)>> :
                    k \in { j \in 1..Len(schema[t].indexes) :
                              schema[t].indexes[j].tpe = "Unique" } } : t \in 1..Len(schema) },
     indexes |->
        UNION { { <<schema[t].name, replace_dot(schema[t].indexes[k].name)>> :
                    k \in { j \in 1..Len(schema[t].indexes) :
                              schema[t].indexes[j].tpe = "Normal" } } : t \in 1..Len(schema) }]

\* What the server reads in the text of a statement.
mssql_parse(stmt) ==
    CASE stmt[1] \in {"BEGIN TRANSACTION", "COMMIT"} -> [tag |-> "Transaction"]
      [] stmt[1] = "ALTER TABLE " /\ stmt[9] = " DROP CONSTRAINT " ->
            [tag |-> "DropConstraint", table |-> stmt[7], name |-> stmt[11]]
      [] stmt[1] = "ALTER TABLE " /\ stmt[9] = " ADD " ->
            [tag |-> "AddForeignKey", table |-> stmt[7], name |-> stmt[12],
             referenced_table |->
                stmt[(CHOOSE k \in 1..Len(stmt) : stmt[k] = " REFERENCES ") + 6]]
      [] stmt[1] = "DROP INDEX " -> [tag |-> "DropIndex", name |-> stmt[3], table |-> stmt[11]]
      [] stmt[1] = mssql_drop_all_constraints("")[1] ->
            [tag |-> "DropAllConstraints", table |-> stmt[2]]
      [] stmt[1] = "CREATE TABLE " ->
            [tag |-> "CreateTable", table |-> stmt[7],
             uniques |-> { stmt[i + 2] : i \in { j \in 1..(Len(stmt) - 4) :
                              stmt[j] = "CONSTRAINT " /\ stmt[j + 4] = " UNIQUE (" } }]
      [] stmt[1] = "SET IDENTITY_INSERT " -> [tag |-> "IdentityInsert", table |-> stmt[7]]
      [] stmt[1] = "IF EXISTS(SELECT * FROM " ->
            [tag |-> "Copy", from |-> stmt[7], into |-> stmt[15]]
      [] stmt[1] = "DROP TABLE " -> [tag |-> "DropTable", table |-> stmt[7]]
      [] stmt[1] = "EXEC SP_RENAME N" -> [tag |-> "Rename", table |-> stmt[5], to |-> stmt[9]]
      [] stmt[1] = "CREATE " -> [tag |-> "CreateIndex", name |-> stmt[5], table |-> stmt[13]]

\* The names of the constraints of the schema.
mssql_constraint_names(catalog) ==
    { fk.name : fk \in catalog.foreign_keys } \cup { c[2] : c \in catalog.constraints }

mssql_can_execute(catalog, stmt) ==
    LET s == mssql_parse(stmt)
    IN CASE s.tag = "Transaction" -> TRUE
         [] s.tag = "DropConstraint" ->
               /\ s.table \in catalog.tables
               /\ \/ \E fk \in catalog.foreign_keys : fk.table = s.table /\ fk.name = s.name
                  \/ <<s.table, s.name>> \in catalog.constraints
         [] s.tag = "AddForeignKey" ->
               /\ s.table \in catalog.tables
               /\ s.referenced_table \in catalog.tables
               /\ s.name \notin mssql_constraint_names(catalog)
         [] s.tag = "DropIndex" -> <<s.table, s.name>> \in catalog.indexes
         [] s.tag = "DropAllConstraints" -> TRUE
         [] s.tag = "CreateTable" ->
               /\ s.table \notin catalog.tables
               /\ s.uniques \cap mssql_constraint_names(catalog) = {}
         [] s.tag = "IdentityInsert" -> s.table \in catalog.tables
         [] s.tag = "Copy" -> s.from \in catalog.tables /\ s.into \in catalog.tables
         [] s.tag = "DropTable" ->
               /\ s.table \in catalog.tables
               /\ ~\E fk \in catalog.foreign_keys :
                     fk.referenced_table = s.table /\ fk.table # s.table
         [] s.tag = "Rename" -> s.table \in catalog.tables /\ s.to \notin catalog.tables
         [] s.tag = "CreateIndex" ->
               /\ s.table \in catalog.tables
               /\ <<s.table, s.name>> \notin (catalog.indexes \cup catalog.constraints)

mssql_executed(catalog, stmt) ==
    LET s == mssql_parse(stmt)
        renamed(t) == IF t = s.table THEN s.to ELSE t
    IN CASE s.tag = "DropConstraint" ->
               [catalog EXCEPT
                  !.foreign_keys = { fk \in @ : ~(fk.table = s.table /\ fk.name = s.name) },
                  !.constraints = @ \ {<<s.table, s.name>>}]
         [] s.tag = "AddForeignKey" ->
               [catalog EXCEPT
                  !.foreign_keys = @ \cup {[table |-> s.table, name |-> s.name,
                                            referenced_table |-> s.referenced_table]}]
         [] s.tag = "DropIndex" -> [catalog EXCEPT !.indexes = @ \ {<<s.table, s.name>>}]
         [] s.tag = "DropAllConstraints" ->
               [catalog EXCEPT !.foreign_keys = { fk \in @ : fk.table # s.table },
                               !.constraints = { c \in @ : c[1] # s.table }]
         [] s.tag = "CreateTable" ->
               [catalog EXCEPT !.tables = @ \cup {s.table},
                               !.constraints = @ \cup { <<s.table, u>> : u \in s.uniques }]
         [] s.tag = "DropTable" ->
               [catalog EXCEPT !.tables = @ \ {s.table},
                               !.foreign_keys = { fk \in @ : fk.table # s.table },
                               !.constraints = { c \in @ : c[1] # s.table },
                               !.indexes = { c \in @ : c[1] # s.table }]
         [] s.tag = "Rename" ->
               [tables |-> { renamed(t) : t \in catalog.tables },
                foreign_keys |-> { [table |-> renamed(fk.table), name |-> fk.name,
                                    referenced_table |-> renamed(fk.referenced_table)] :
                                     fk \in catalog.foreign_keys },
                constraints |-> { <<renamed(c[1]), c[2]>> : c \in catalog.constraints },
                indexes |-> { <<renamed(c[1]), c[2]>> : c \in catalog.indexes }]
         [] s.tag = "CreateIndex" -> [catalog EXCEPT !.indexes = @ \cup {<<s.table, s.name>>}]
         [] OTHER -> catalog

(***************************************************************************)
(* Inputs: the tables A and B are both redefined (the identity of their    *)
(* column id changes), in either order; B may have a foreign key to A, A   *)
(* one to B, and table R one to A                                          *)
(***************************************************************************)
LinkedShapes ==
    [b_to_a : BOOLEAN, a_to_b : BOOLEAN, r_to_a : BOOLEAN, a_first : BOOLEAN,
     auto : BOOLEAN]

linked_table_of(name, other, linked, auto) ==
    Table(name,
          <<Column("id", "Int", "Required", auto, None),
            Column("to_" \o other, "Int", "Nullable", FALSE, None)>>,
          Some([columns |-> <<"id">>, constraint_name |-> None]),
          <<>>,
          IF linked
          THEN <<ForeignKey(Some(name \o "_" \o other \o "_fkey"), <<"to_" \o other>>, other,
                            <<"id">>, "Cascade", "NoAction")>>
          ELSE <<>>)

linked_schema_of(shape, auto) ==
    <<linked_table_of("A", "B", shape.a_to_b, auto),
      linked_table_of("B", "A", shape.b_to_a, auto),
      Table("R",
            <<Column("id", "Int", "Required", FALSE, None),
              Column("to_A", "Int", "Nullable", FALSE, None)>>,
            None, <<>>,
            IF shape.r_to_a
            THEN <<ForeignKey(Some("R_A_fkey"), <<"to_A">>, "A", <<"id">>, "Cascade", "NoAction")>>
            ELSE <<>>)>>

linked_input_of(shape) ==
    LET redefine(k) ==
          [table_index |-> Pair(k, k),
           column_pairs |-> <<[column_index |-> Pair(1, 1), changes |-> {"Sequence"},
                               type_change |-> None],
                              [column_index |-> Pair(2, 2), changes |-> {},
                               type_change |-> None]>>]
    IN [schemas |-> Pair(linked_schema_of(shape, ~shape.auto),
                         linked_schema_of(shape, shape.auto)),
        tables |-> IF shape.a_first THEN <<redefine(1), redefine(2)>>
                   ELSE <<redefine(2), redefine(1)>>]

InitMssqlRedefineLinked ==
    /\ pc = "mssql_redefine"
    /\ input \in { linked_input_of(shape) : shape \in LinkedShapes }
    /\ output = <<>>
    /\ index = 0
    /\ pos = 0
    /\ executed = <<>>
    /\ result = mssql_catalog_of(input.schemas.previous)

\* The next statement runs.
ExecuteStatementMssql ==
    /\ pc = "rendered"
    /\ index < Len(output)
    /\ mssql_can_execute(result, output[index + 1])
    /\ result' = mssql_executed(result, output[index + 1])
    /\ index' = index + 1
    /\ executed' = Append(executed, output[index + 1])
    /\ UNCHANGED <<pc, input, output, pos>>

\* The next statement names an object that does not exist: it fails.
ExecuteStatementMssqlErr ==
    /\ pc = "rendered"
    /\ index < Len(output)
    /\ ~mssql_can_execute(result, output[index + 1])
    /\ pc' = "failed"
    /\ pos' = index + 1
    /\ UNCHANGED <<input, output, index, executed, result>>

NextMssqlRedefineLinked ==
    \/ RenderRedefineTablesMssql
    \/ ExecuteStatementMssql
    \/ ExecuteStatementMssqlErr

SpecMssqlRedefineLinked == InitMssqlRedefineLinked /\ [][NextMssqlRedefineLinked]_vars

(***************************************************************************)
(* C23  MSSQL redefinition of tables that reference each other             *)
(***************************************************************************)
\* C23: run in order from the state of the previous schema, every statement of
\* the redefinition of two tables names only tables and constraints that exist
\* at that point, in either order of the two tables: no statement fails.
C23_ObjectsExist == pc # "failed"

\* The table of position k of the list has a foreign key to the one of position j.
C23_references(k, j) ==
    LET from == input.schemas.previous[input.tables[k].table_index.previous]
        to == input.schemas.previous[input.tables[j].table_index.previous]
    IN \E f \in 1..Len(from.foreign_keys) : from.foreign_keys[f].referenced_table = to.name

\* What holds: a statement fails only when the first table of the list has a
\* foreign key to the second one, and the statement is the DROP CONSTRAINT of
\* that foreign key, which went away with the constraints of the first table.
C23_FailsOnDroppedForeignKey ==
    pc = "failed" =>
       /\ C23_references(1, 2)
       /\ mssql_parse(output[pos]).tag = "DropConstraint"
       /\ mssql_parse(output[pos]).table
             = input.schemas.previous[input.tables[1].table_index.previous].name
       /\ \E s \in 1..(pos - 1) :
             /\ mssql_parse(output[s]).tag = "DropAllConstraints"
             /\ mssql_parse(output[s]).table = mssql_parse(output[pos]).table

\* B, which references A, is redefined first: the redefinition of A then drops
\* the foreign key of B, which is gone.
C23_DropOfRemovedForeignKey ==
    /\ pc = "failed"
    /\ ~input.schemas.next[1].columns[1].auto_increment
    /\ output[pos] = <<"ALTER TABLE ", "[", "dbo", "]", ".", "[", "B", "]",
                       " DROP CONSTRAINT ", "[", "B_A_fkey", "]">>
    /\ "B" \in result.tables
    /\ ~\E fk \in result.foreign_keys : fk.name = "B_A_fkey"

\* A is redefined first: every statement runs.
C23_ReferencedFirstRuns ==
    /\ pc = "rendered"
    /\ index = Len(output)
    /\ C23_references(2, 1)
    /\ ~C23_references(1, 2)
    /\ result.tables = {"A", "B", "R"}

(***************************************************************************)
(* C24  MSSQL redefinition: each index is created once                     *)
(***************************************************************************)
\* The statement is the CREATE [UNIQUE] INDEX of the name on the table.
C24_is_create_index(stmt, table_name, index_name) ==
    /\ Len(stmt) >= 13
    /\ stmt[1] = "CREATE "
    /\ stmt[3] = "INDEX "
    /\ stmt[5] = index_name
    /\ stmt[13] = table_name

\* The statement is the CREATE TABLE of the temporary table of the table and
\* declares the UNIQUE constraint of the name.
C24_declares_unique(stmt, table_name, index_name) ==
    /\ stmt[1] = "CREATE TABLE "
    /\ stmt[7] = "_prisma_new_" \o table_name
    /\ \E i \in 1..(Len(stmt) - 4) :
          /\ stmt[i] = "CONSTRAINT "
          /\ stmt[i + 2] = index_name
          /\ stmt[i + 4] = " UNIQUE ("

C24_created(table_name, index_name) ==
    Cardinality({ s \in 1..Len(output) :
                    \/ C24_is_create_index(output[s], table_name, index_name)
                    \/ C24_declares_unique(output[s], table_name, index_name) })

\* C24: each index of the next table of a redefined table is created by
\* exactly one statement; a unique index is not both declared as a UNIQUE
\* constraint of the temporary table and created by CREATE UNIQUE INDEX.
C24_IndexOnce ==
    pc = "rendered" =>
       \A k \in 1..Len(input.tables) :
          LET table == input.schemas.next[input.tables[k].table_index.next]
          IN \A i \in 1..Len(table.indexes) :
                C24_created(table.name, replace_dot(table.indexes[i].name)) = 1

\* What holds: an index that is not unique is created once, a unique one twice.
C24_UniqueTwice ==
    pc = "rendered" =>
       \A k \in 1..Len(input.tables) :
          LET table == input.schemas.next[input.tables[k].table_index.next]
          IN \A i \in 1..Len(table.indexes) :
                C24_created(table.name, replace_dot(table.indexes[i].name))
                   = IF table.indexes[i].tpe = "Unique" THEN 2 ELSE 1

\* The unique index A.u of the next table A is declared in the CREATE TABLE of
\* _prisma_new_A and created again after the rename.
C24_DeclaredAndCreated ==
    /\ pc = "rendered"
    /\ Len(input.tables) = 1
    /\ \E s, t \in 1..Len(output) :
          /\ s < t
          /\ C24_declares_unique(output[s], "A", "A_u")
          /\ output[t] = <<"CREATE ", "UNIQUE ", "INDEX ", "[", "A_u", "]", " ON ",
                           "[", "dbo", "]", ".", "[", "A", "]", "(", "[", "w", "]", ")">>

(***************************************************************************)
(* Inputs of the MSSQL AlterTable with keys: table Cat(id, n, old), with   *)
(* or without the primary key PK_Cat on old, becomes Cat(id, new, n), with  *)
(* or without a primary key                                                *)
(***************************************************************************)
AlterOrderShapes ==
    { sh \in [drop_pk : BOOLEAN, add_pk : {<<>>, <<"id">>, <<"new">>, <<"id", "new">>},
              add_col : BOOLEAN, drop_col : BOOLEAN,
              alter : {"none", "drop_default", "replace_default", "type"},
              reversed : BOOLEAN] :
        /\ (\E k \in 1..Len(sh.add_pk) : sh.add_pk[k] = "new") => sh.add_col
        /\ sh.drop_pk \/ sh.add_pk # <<>> \/ sh.add_col \/ sh.drop_col \/ sh.alter # "none" }

Reverse(s) == [k \in 1..Len(s) |-> s[Len(s) + 1 - k]]

alter_order_input_of(sh) ==
    LET pdef == IF sh.alter \in {"drop_default", "replace_default"} THEN NamedDefault0 ELSE None
        ndef == IF sh.alter = "replace_default" THEN Default1 ELSE None
        nfamily == IF sh.alter = "type" THEN "BigInt" ELSE "Int"
        changes ==
            (IF sh.drop_pk THEN <<[tag |-> "DropPrimaryKey"]>> ELSE <<>>)
            \o (IF sh.add_pk # <<>> THEN <<[tag |-> "AddPrimaryKey", columns |-> sh.add_pk]>>
                ELSE <<>>)
            \o (IF sh.drop_col THEN <<[tag |-> "DropColumn", index |-> 3]>> ELSE <<>>)
            \o (IF sh.alter # "none"
                THEN <<[tag |-> "AlterColumn", column_index |-> Pair(2, 3),
                        changes |-> IF sh.alter = "type" THEN {"TypeChanged"} ELSE {"Default"},
                        type_change |-> IF sh.alter = "type" THEN Some("SafeCast") ELSE None]>>
                ELSE <<>>)
            \o (IF sh.add_col THEN <<[tag |-> "AddColumn", column_index |-> 2]>> ELSE <<>>)
    IN [schemas |->
          Pair(<<Table("Cat",
                       <<Column("id", "Int", "Required", FALSE, None),
                         Column("n", "Int", "Required", FALSE, pdef),
                         Column("old", "Int", "Required", FALSE, None)>>,
                       IF sh.drop_pk
                       THEN Some([columns |-> <<"old">>, constraint_name |-> Some("PK_Cat")])
                       ELSE None,
                       <<>>, <<>>)>>,
               <<Table("Cat",
                       <<Column("id", "Int", "Required", FALSE, None),
                         Column("new", "Int", "Required", FALSE, None),
                         Column("n", nfamily, "Required", FALSE, ndef)>>,
                       IF sh.add_pk # <<>>
                       THEN Some([columns |-> sh.add_pk, constraint_name |-> None])
                       ELSE None,
                       <<>>, <<>>)>>),
        alter_table |->
          [table_index |-> Pair(1, 1),
           changes |-> IF sh.reversed THEN Reverse(changes) ELSE changes]]

InitMssqlAlterOrder ==
    /\ pc = "mssql_alter_table"
    /\ input \in { alter_order_input_of(sh) : sh \in AlterOrderShapes }
    /\ output = <<>>
    /\ Idle

SpecMssqlAlterOrder == InitMssqlAlterOrder /\ [][RenderAlterTableMssql]_vars

(***************************************************************************)
(* C25  MSSQL AlterTable: the order of the statements                      *)
(***************************************************************************)
C25_changes(tag) ==
    { k \in 1..Len(input.alter_table.changes) : input.alter_table.changes[k].tag = tag }

C25_added ==
    { input.schemas.next[1].columns[input.alter_table.changes[k].column_index].name :
        k \in C25_changes("AddColumn") }

C25_dropped ==
    { input.schemas.previous[1].columns[input.alter_table.changes[k].index].name :
        k \in C25_changes("DropColumn") }

C25_names(stmt, column) == \E t \in 10..Len(stmt) : stmt[t] = column

\* The statement that adds columns, the one that drops columns, the one that
\* drops constraints (0 when there is none).
C25_position(is_it(_)) ==
    IF \E s \in 1..Len(output) : is_it(output[s])
    THEN CHOOSE s \in 1..Len(output) : is_it(output[s])
    ELSE 0

C25_add_columns == C25_position(LAMBDA stmt : stmt[9] = " ADD " /\ stmt[10] = "[")
C25_drop_columns == C25_position(LAMBDA stmt : stmt[9] = " DROP COLUMN ")
C25_drop_constraints == C25_position(LAMBDA stmt : stmt[9] = " DROP CONSTRAINT ")
C25_add_constraints == C25_position(LAMBDA stmt : stmt[9] = " ADD " /\ stmt[10] # "[")

\* C25: in the statements of one AlterTable, a statement that names an added
\* column comes after the statement that adds it (so the primary key over an
\* added column comes after the ADD), a statement that names a dropped column
\* comes before the DROP COLUMN, and the dropped primary key and default
\* constraints come before the DROP COLUMN.
C25_Order ==
    pc = "rendered" =>
       /\ \A s \in 1..Len(output) : \A c \in C25_added :
             C25_names(output[s], c) => s >= C25_add_columns
       /\ \A s \in 1..Len(output) : \A c \in C25_dropped :
             C25_names(output[s], c) => s <= C25_drop_columns
       /\ C25_drop_constraints # 0 /\ C25_drop_columns # 0
             => C25_drop_constraints < C25_drop_columns

\* What holds: the statements come in the fixed order DROP CONSTRAINT, ALTER
\* COLUMN, ADD of constraints, DROP COLUMN, ADD of columns, so the ADD of the
\* columns is the last statement and the key over an added column is before it.
C25_AddColumnsLast ==
    pc = "rendered" =>
       /\ C25_add_columns \in {0, Len(output)}
       /\ C25_drop_constraints \in {0, 1}
       /\ C25_drop_columns # 0 =>
             /\ C25_drop_columns > C25_drop_constraints
             /\ C25_drop_columns > C25_add_constraints
       /\ \A k \in C25_changes("AddPrimaryKey") :
             C25_add_constraints # 0
             /\ (C25_add_columns # 0 => C25_add_constraints < C25_add_columns)

\* The primary key over the added column new is rendered before the column is
\* added.
C25_KeyBeforeAdd ==
    /\ pc = "rendered"
    /\ "new" \in C25_added
    /\ \E s \in 1..Len(output) :
          /\ output[s][9] = " ADD "
          /\ output[s][10] = "CONSTRAINT PK__"
          /\ C25_names(output[s], "new")
          /\ s < C25_add_columns

\* The primary key and the default constraint are dropped before the column.
C25_ConstraintsBeforeDrop ==
    /\ pc = "rendered"
    /\ C25_changes("DropPrimaryKey") # {}
    /\ input.schemas.previous[1].columns[2].default # None
    /\ C25_drop_constraints = 1
    /\ C25_drop_columns > 1

\* Without a primary key over an added column the order of the claim holds.
C25_OrderWithoutNewKey ==
    (\A k \in C25_changes("AddPrimaryKey") :
        \A c \in 1..Len(input.alter_table.changes[k].columns) :
           input.alter_table.changes[k].columns[c] \notin C25_added)
    => C25_Order

(***************************************************************************)
(* Inputs of the PostgreSQL AlterEnum in a migration that also creates     *)
(* tables and columns: T has before[1] columns of enum Color and then      *)
(* after[1]; U has before[2] and then after[2], or is created by the       *)
(* migration (u_before FALSE)                                              *)
(***************************************************************************)
EnumGrowthShapes ==
    [before : {<<0, 0>>, <<1, 0>>, <<1, 1>>, <<2, 1>>},
     after : {<<0, 0>>, <<1, 0>>, <<1, 1>>, <<2, 1>>, <<2, 0>>},
     u_before : BOOLEAN]

enum_growth_input_of(previous_values, next_values, shape) ==
    [schemas |->
        Pair([tables |-> <<enum_table_of("T", shape.before[1])>>
                         \o (IF shape.u_before
                             THEN <<enum_table_of("U", shape.before[2])>> ELSE <<>>),
              enums |-> <<Enum("Mood", <<"Happy">>), Enum("Color", previous_values)>>],
             enum_schema_of(next_values, shape.after)),
     alter_enum |->
        [index |-> Pair(2, 2),
         created_variants |->
            SelectSeq(next_values, LAMBDA v : ~any(previous_values, LAMBDA p : p = v)),
         dropped_variants |->
            SelectSeq(previous_values, LAMBDA v : ~any(next_values, LAMBDA n : n = v))]]

InitPostgresAlterEnumGrowth ==
    /\ pc = "postgres_alter_enum"
    /\ input \in { enum_growth_input_of(p, n, shape) :
                      p \in VariantLists \ {<<>>}, n \in VariantLists \ {<<>>},
                      shape \in EnumGrowthShapes }
    /\ input.schemas.previous.enums # input.schemas.next.enums
    /\ output = <<>>
    /\ Idle

SpecPostgresAlterEnumGrowth == InitPostgresAlterEnumGrowth /\ [][RenderAlterEnumPostgres]_vars

(***************************************************************************)
(* C26  PostgreSQL enum rebuild: the columns that are altered              *)
(***************************************************************************)
\* The (table, column) pairs that the statements alter.
C26_altered ==
    UNION { { <<output[s][k - 2], output[s][k + 2]>> :
                k \in { j \in 3..(Len(output[s]) - 2) : output[s][j] = " ALTER COLUMN " } } :
            s \in { i \in 1..Len(output) : output[i][1] = "ALTER TABLE " } }

C26_columns(schema, only_color) ==
    { <<c.table, c.column.name>> :
        c \in { walk_columns(schema)[i] : i \in
                  { j \in 1..Len(walk_columns(schema)) :
                      only_color => /\ walk_columns(schema)[j].column.family = "Enum"
                                    /\ walk_columns(schema)[j].column.enum_name = "Color" } } }

\* C26: the AlterEnum runs on the previous schema (before the CreateTable and
\* AlterTable steps of the migration): every column that the rebuild alters
\* is a column of the previous schema.
C26_AlteredExist ==
    pc = "rendered" => C26_altered \subseteq C26_columns(input.schemas.previous, FALSE)

\* What holds: when variants are dropped the rebuild alters exactly the columns
\* of enum Color of the next schema.
C26_AltersNextColumns ==
    pc = "rendered" =>
       C26_altered = IF input.alter_enum.dropped_variants = <<>> THEN {}
                     ELSE C26_columns(input.schemas.next, TRUE)

\* The column of a table that the migration creates is altered.
C26_AltersColumnOfNewTable ==
    /\ pc = "rendered"
    /\ Len(input.schemas.previous.tables) = 1
    /\ <<"U", ColumnNames[1]>> \in C26_altered

\* The column that the migration adds to table T is altered.
C26_AltersNewColumn ==
    /\ pc = "rendered"
    /\ <<"T", ColumnNames[2]>> \in C26_altered
    /\ <<"T", ColumnNames[2]>> \notin C26_columns(input.schemas.previous, FALSE)
    /\ <<"T", ColumnNames[1]>> \in C26_columns(input.schemas.previous, TRUE)

(***************************************************************************)
(* C27  PostgreSQL AlterColumn: one SetType, one DropDefault               *)
(***************************************************************************)
\* The expansion of an AlterColumn of the AlterTable.
C27_expanded(ac) ==
    expand_postgres_alter_column(Pair(ac.previous, ac.next), ac.changes)

C27_steps(ac, op) ==
    { k \in 1..Len(C27_expanded(ac)) : C27_expanded(ac)[k].op = op }

\* The number of DROP DEFAULT clauses that the ALTER TABLE has for the column.
C27_drop_default_clauses(ac) ==
    Cardinality({ <<at, j>> \in C12_alter_tables \X (1..40) :
                    /\ j + 4 <= Len(output[at])
                    /\ output[at][j] = "ALTER COLUMN "
                    /\ output[at][j + 2] = ac.previous.name
                    /\ output[at][j + 4] = " DROP DEFAULT" })

\* The number of DROP SEQUENCE statements for the sequence of column a.
C27_drop_sequences ==
    Cardinality({ k \in 1..Len(output) : str(output[k]) = "DROP SEQUENCE \"T_a_seq\"" })

\* No other AlterColumn of the AlterTable drops the same sequence default.
C27_alone(ac) == \A other \in C12_alter_columns : other # ac => ~C12_loses(other)

\* C27: the expansion of one AlterColumn has at most one SetType, which is the
\* last step, and at most one DropDefault, for every change set; the rendering
\* has at most one DROP DEFAULT clause for the column and at most one DROP
\* SEQUENCE for its sequence, also when the changes hold Default and Sequence.
C27_AtMostOnce ==
    pc = "rendered" =>
       \A ac \in C12_alter_columns :
          /\ Cardinality(C27_steps(ac, "SetType")) <= 1
          /\ C27_steps(ac, "SetType") \subseteq {Len(C27_expanded(ac))}
          /\ Cardinality(C27_steps(ac, "DropDefault")) <= 1
          /\ C27_drop_default_clauses(ac) <= 1
          /\ C27_alone(ac) => C27_drop_sequences <= 1

\* The column had a sequence and an autoincrement, has no default afterwards,
\* and both changes are recorded.
C27_both(ac) ==
    /\ {"Default", "Sequence"} \subseteq ac.changes
    /\ ac.previous.auto_increment
    /\ ac.next.default = None

\* What holds: at most one SetType, the last step, present exactly when the
\* type changed or the arity went from or to a list; two DropDefault exactly
\* when Default (with no next default) and Sequence (with a previous
\* autoincrement) are both in the change set, and then two DROP DEFAULT
\* clauses; one DropDefault at most otherwise.
C27_TwiceWhenBoth ==
    pc = "rendered" =>
       \A ac \in C12_alter_columns :
          /\ Cardinality(C27_steps(ac, "SetType")) <= 1
          /\ C27_steps(ac, "SetType") \subseteq {Len(C27_expanded(ac))}
          /\ C27_steps(ac, "SetType") # {}
                <=> \/ "TypeChanged" \in ac.changes
                    \/ /\ "Arity" \in ac.changes
                       /\ (ac.previous.arity = "List") # (ac.next.arity = "List")
          /\ Cardinality(C27_steps(ac, "DropDefault")) = IF C27_both(ac) THEN 2
                 ELSE IF \/ "Default" \in ac.changes /\ ac.next.default = None
                         \/ "Sequence" \in ac.changes /\ ac.previous.auto_increment
                      THEN 1 ELSE 0
          /\ C27_drop_default_clauses(ac) = Cardinality(C27_steps(ac, "DropDefault"))

\* Column a loses its sequence default with Default and Sequence both recorded:
\* two DROP DEFAULT clauses and two DROP SEQUENCE statements.
C27_DroppedTwice ==
    /\ pc = "rendered"
    /\ \E ac \in C12_alter_columns :
          /\ C27_both(ac)
          /\ C27_alone(ac)
          /\ ac.previous.name = "a"
          /\ C27_drop_default_clauses(ac) = 2
    /\ C27_drop_sequences = 2

\* Type and arity (to a list) both change: one SetType, the last step.
C27_OneSetType ==
    /\ pc = "rendered"
    /\ \E ac \in C12_alter_columns :
          /\ {"TypeChanged", "Arity"} \subseteq ac.changes
          /\ C27_steps(ac, "SetType") = {Len(C27_expanded(ac))}

(***************************************************************************)
(* Inputs of expand_mssql_alter_column: column n before and after, with    *)
(* no default, a default without constraint name, or a named default, and  *)
(* any set of changes                                                      *)
(***************************************************************************)
MssqlExpandInputs ==
    { [columns |-> Pair(Column("n", "Int", parity, FALSE, pdef),
                        Column("n", "Int", "Required", FALSE, ndef)),
       changes |-> changes] :
        pdef \in {None, Default0, NamedDefault0},
        ndef \in {None, Default0, Default1},
        parity \in {"Required", "Nullable"},
        changes \in SUBSET {"Arity", "Default", "TypeChanged"} }

InitMssqlExpand ==
    /\ pc = "mssql_expand"
    /\ input \in MssqlExpandInputs
    /\ output = <<>>
    /\ Idle

ExpandMssqlAlterColumn ==
    /\ pc = "mssql_expand"
    /\ output' = expand_mssql_alter_column(input.columns, input.changes)
    /\ pc' = IF output' = <<Panic>> THEN "aborted" ELSE "expanded"
    /\ UNCHANGED <<input, index, pos, executed, result>>

SpecMssqlExpand == InitMssqlExpand /\ [][ExpandMssqlAlterColumn]_vars

(***************************************************************************)
(* C28  expand_mssql_alter_column with a default change                    *)
(***************************************************************************)
\* The previous column has no default constraint that can be named.
C28_unnamed ==
    \/ input.columns.previous.default = None
    \/ input.columns.previous.default[1].constraint_name = None

C28_ops == [k \in 1..Len(output) |-> output[k].op]

\* C28: for every pair of columns and every change set with Default the
\* function returns a list and does not abort; when the previous column has no
\* default, or one without constraint name, and the next column has a default,
\* the list has no DropDefault and has the SetDefault of the next default.
C28_Returns ==
    "Default" \in input.changes =>
       /\ pc # "aborted"
       /\ (pc = "expanded" /\ C28_unnamed /\ input.columns.next.default # None) =>
             /\ \A k \in 1..Len(output) : output[k].op # "DropDefault"
             /\ \E k \in 1..Len(output) :
                   output[k] = [op |-> "SetDefault", default |-> input.columns.next.default[1]]

\* What holds: with Default in the change set the function aborts exactly when
\* the previous column has no default or a default without constraint name;
\* otherwise the list starts with the DropDefault of the named constraint,
\* goes on with Modify when something else changed, and ends with the
\* SetDefault when the next column has a default.
C28_AbortsWhenUnnamed ==
    (pc # "mssql_expand" /\ "Default" \in input.changes) =>
       /\ pc = "aborted" <=> C28_unnamed
       /\ pc = "expanded" =>
             /\ output[1] = [op |-> "DropDefault", constraint_name |-> "DF__Cat__n"]
             /\ C28_ops = <<"DropDefault">>
                          \o (IF input.changes # {"Default"} THEN <<"Modify">> ELSE <<>>)
                          \o (IF input.columns.next.default # None THEN <<"SetDefault">>
                              ELSE <<>>)

\* A column without default gets one: the function aborts.
C28_AbortsOnNewDefault ==
    /\ pc = "aborted"
    /\ input.changes = {"Default"}
    /\ input.columns.previous.default = None
    /\ input.columns.next.default = Default1

\* The previous default has no constraint name: the function aborts.
C28_AbortsOnMissingName ==
    /\ pc = "aborted"
    /\ input.columns.previous.default = Default0
    /\ input.columns.next.default = Default1

(***************************************************************************)
(* MSSQL describe() next to another session                                *)
(*                                                                         *)
(* input is the server (the tables of the schema), which another session   *)
(* changes between the queries of describe(); output holds the locals of   *)
(* describe(): the three maps, the table names and the tables made so far. *)
(***************************************************************************)
CatalogNames == <<"A", "B", "C">>

\* What the catalog holds for a table: B has an index and a foreign key to A,
\* C a primary key, A neither.
catalog_columns(name) ==
    IF name = "B"
    THEN <<Column("id", "Int", "Required", FALSE, None),
           Column("a_id", "Int", "Nullable", FALSE, None)>>
    ELSE <<Column("id", "Int", "Required", FALSE, None)>>

catalog_indexes(name) ==
    CASE name = "B" -> [indices |-> <<Index("B_a_id_idx", <<"a_id">>, "Normal")>>,
                        primary_key |-> None]
      [] name = "C" -> [indices |-> <<>>,
                        primary_key |-> Some([columns |-> <<"id">>,
                                              constraint_name |-> Some("PK_C")])]

catalog_foreign_keys(name) ==
    <<ForeignKey(Some("B_A_fkey"), <<"a_id">>, "A", <<"id">>, "NoAction", "NoAction")>>

\* The rows of a query, grouped by table as the three get_* functions do.
query_columns(server) == [n \in server.tables |-> catalog_columns(n)]
query_indexes(server) == [n \in server.tables \cap {"B", "C"} |-> catalog_indexes(n)]
query_foreign_keys(server) == [n \in server.tables \cap {"B"} |-> catalog_foreign_keys(n)]
\* ORDER BY t.name asc
query_table_names(server) == SelectSeq(CatalogNames, LAMBDA n : n \in server.tables)

\* HashMap::remove
map_remove(m, key) == [k \in DOMAIN m \ {key} |-> m[k]]

\* get_table: None when columns.remove(name) is None (expect aborts).
get_table(name, columns, indexes, foreign_keys) ==
    IF name \notin DOMAIN columns THEN None
    ELSE Some(Table(name,
                    columns[name],
                    IF name \in DOMAIN indexes THEN indexes[name].primary_key ELSE None,
                    IF name \in DOMAIN indexes THEN indexes[name].indices ELSE <<>>,
                    IF name \in DOMAIN foreign_keys THEN foreign_keys[name] ELSE <<>>))

EmptyMap == [n \in {} |-> <<>>]

InitMssqlDescribe ==
    /\ pc = "get_all_columns"
    /\ input \in { [tables |-> S] : S \in { T \in SUBSET {"A", "B", "C"} : "B" \in T => "A" \in T } }
    /\ output = [columns |-> EmptyMap, indexes |-> EmptyMap, foreign_keys |-> EmptyMap,
                 table_names |-> <<>>, tables |-> <<>>]
    /\ Idle

\* let mut columns = self.get_all_columns(schema).await?;
DescribeGetAllColumns ==
    /\ pc = "get_all_columns"
    /\ output' = [output EXCEPT !.columns = query_columns(input)]
    /\ pc' = "get_all_indices"
    /\ UNCHANGED <<input, index, pos, executed, result>>

\* let mut indexes = self.get_all_indices(schema).await?;
DescribeGetAllIndices ==
    /\ pc = "get_all_indices"
    /\ output' = [output EXCEPT !.indexes = query_indexes(input)]
    /\ pc' = "get_foreign_keys"
    /\ UNCHANGED <<input, index, pos, executed, result>>

\* let mut foreign_keys = self.get_foreign_keys(schema).await?;
DescribeGetForeignKeys ==
    /\ pc = "get_foreign_keys"
    /\ output' = [output EXCEPT !.foreign_keys = query_foreign_keys(input)]
    /\ pc' = "get_table_names"
    /\ UNCHANGED <<input, index, pos, executed, result>>

\* let table_names = self.get_table_names(schema).await?;
DescribeGetTableNames ==
    /\ pc = "get_table_names"
    /\ output' = [output EXCEPT !.table_names = query_table_names(input)]
    /\ pc' = "get_table"
    /\ UNCHANGED <<input, index, pos, executed, result>>

\* One of the four queries fails: `?` returns the error.
DescribeQueryErr ==
    /\ pc \in {"get_all_columns", "get_all_indices", "get_foreign_keys", "get_table_names"}
    /\ result' = DescriberErr
    /\ pc' = "query_failed"
    /\ UNCHANGED <<input, output, index, pos, executed>>

\* One turn of the loop over table_names.
DescribeGetTable ==
    /\ pc = "get_table"
    /\ index < Len(output.table_names)
    /\ LET name == output.table_names[index + 1]
           table == get_table(name, output.columns, output.indexes, output.foreign_keys)
       IN /\ table # None
          /\ output' = [output EXCEPT !.columns = map_remove(@, name),
                                      !.indexes = map_remove(@, name),
                                      !.foreign_keys = map_remove(@, name),
                                      !.tables = Append(@, table[1])]
    /\ index' = index + 1
    /\ UNCHANGED <<pc, input, pos, executed, result>>

\* expect("table columns not found")
DescribeGetTableAbort ==
    /\ pc = "get_table"
    /\ index < Len(output.table_names)
    /\ get_table(output.table_names[index + 1], output.columns, output.indexes,
                 output.foreign_keys) = None
    /\ result' = DescriberAbort
    /\ pc' = "aborted"
    /\ UNCHANGED <<input, output, index, pos, executed>>

\* Ok(SqlSchema { tables, enums: vec![], sequences: vec![] })
DescribeReturn ==
    /\ pc = "get_table"
    /\ index = Len(output.table_names)
    /\ result' = [tag |-> "Ok",
                  value |-> [tables |-> output.tables, enums |-> <<>>, sequences |-> <<>>]]
    /\ pc' = "described"
    /\ UNCHANGED <<input, output, index, pos, executed>>

\* Another session creates a table (B references A).
SessionCreateTable ==
    /\ pc \in {"get_all_columns", "get_all_indices", "get_foreign_keys", "get_table_names"}
    /\ pos < MaxSessionStatements
    /\ \E name \in {"A", "B", "C"} \ input.tables :
          /\ name = "B" => "A" \in input.tables
          /\ input' = [input EXCEPT !.tables = @ \cup {name}]
          /\ executed' = Append(executed, <<"CREATE TABLE", name, pc>>)
    /\ pos' = pos + 1
    /\ UNCHANGED <<pc, output, index, result>>

\* Another session drops a table (A not while B references it).
SessionDropTable ==
    /\ pc \in {"get_all_columns", "get_all_indices", "get_foreign_keys", "get_table_names"}
    /\ pos < MaxSessionStatements
    /\ \E name \in input.tables :
          /\ name = "A" => "B" \notin input.tables
          /\ input' = [input EXCEPT !.tables = @ \ {name}]
          /\ executed' = Append(executed, <<"DROP TABLE", name, pc>>)
    /\ pos' = pos + 1
    /\ UNCHANGED <<pc, output, index, result>>

NextMssqlDescribe ==
    \/ DescribeGetAllColumns
    \/ DescribeGetAllIndices
    \/ DescribeGetForeignKeys
    \/ DescribeGetTableNames
    \/ DescribeQueryErr
    \/ DescribeGetTable
    \/ DescribeGetTableAbort
    \/ DescribeReturn
    \/ SessionCreateTable
    \/ SessionDropTable

SpecMssqlDescribe == InitMssqlDescribe /\ [][NextMssqlDescribe]_vars

(***************************************************************************)
(* C29  MSSQL describe() while another session changes the schema          *)
(***************************************************************************)
\* C29: whatever another session creates or drops between the queries,
\* describe() returns a schema or an error and never aborts, and every table
\* of the returned schema has the columns read for it.
C29_NeverAborts ==
    /\ pc # "aborted"
    /\ pc = "described" =>
          \A t \in 1..Len(result.value.tables) :
             result.value.tables[t].columns = catalog_columns(result.value.tables[t].name)

\* The statements of the other session that ran after the columns were read.
C29_after_columns(statement) ==
    { executed[k][2] : k \in { j \in 1..Len(executed) :
                                 /\ executed[j][1] = statement
                                 /\ executed[j][3] # "get_all_columns" } }

\* What holds: describe() aborts only on a table that the other session
\* created after the columns were read and before the table names were; the
\* schema that it returns has, for each table name read, the columns read.
C29_AbortsOnCreatedTable ==
    /\ pc = "aborted" =>
          /\ output.table_names[index + 1] \in C29_after_columns("CREATE TABLE")
          /\ output.table_names[index + 1] \notin DOMAIN output.columns
    /\ pc = "described" =>
          /\ [t \in 1..Len(result.value.tables) |-> result.value.tables[t].name]
                = output.table_names
          /\ \A t \in 1..Len(result.value.tables) :
                result.value.tables[t].columns = catalog_columns(result.value.tables[t].name)

\* Table C is created between the query of the columns and the query of the
\* table names: describe() aborts.
C29_CreatedBetweenQueries ==
    /\ pc = "aborted"
    /\ executed = << <<"CREATE TABLE", "C", "get_all_indices">> >>
    /\ output.table_names[index + 1] = "C"
    /\ Len(output.tables) = 1

\* Table B is dropped between the queries: the schema is returned without it.
C29_DroppedBetweenQueries ==
    /\ pc = "described"
    /\ executed = << <<"DROP TABLE", "B", "get_foreign_keys">> >>
    /\ Len(result.value.tables) = 2
    /\ result.value.tables[1].name = "A"
    /\ result.value.tables[2].primary_key # None

\* The query fails: an error is returned.
C29_QueryFailed == pc = "query_failed" /\ result = DescriberErr /\ pos = 1

(***************************************************************************)
(* C30  The shadow database call and the main database                     *)
(***************************************************************************)
\* The schemas of the main database.
C30_main_schemas == { s[2] : s \in { x \in output.server.schemas : x[1] = MainDatabase } }

\* The statements sent that are the script of a migration of the list.
C30_script_calls ==
    { i \in 1..Len(executed) :
        \E m \in 1..Len(input.migrations) :
           /\ input.migrations[m].script # None
           /\ executed[i].sql = input.migrations[m].script[1] }

\* C30: the call leaves the main database as it was: no schema or other object
\* is created in it or removed from it, and every migration script is sent on
\* the connection to the shadow database only.
C30_MainUnchanged ==
    /\ C30_main_schemas = {"dbo"}
    /\ MainDatabase \in output.server.databases
    /\ \A i \in C30_script_calls : executed[i].on = shadow_database

\* What holds: the scripts go to the shadow database only and the main
\* database stays, but as soon as the first statement of the call has run the
\* main database has a schema of the name of the shadow database, and keeps it.
C30_SchemaAdded ==
    /\ MainDatabase \in output.server.databases
    /\ \A i \in C30_script_calls : executed[i].on = shadow_database
    /\ C30_main_schemas =
          IF executed # <<>> /\ executed[1].ok THEN {"dbo", shadow_database} ELSE {"dbo"}

\* The call returned its schema after two scripts, and the main database has
\* one schema more than before.
C30_SchemaInMainDatabase ==
    /\ pc = "returned"
    /\ result.tag = "Ok"
    /\ Cardinality(C30_script_calls) = 2
    /\ executed[1].on = MainDatabase
    /\ executed[1].sql = shadow_drop_database(shadow_database).sql
    /\ C30_main_schemas = {"dbo", "prisma_migrations_shadow_database_" \o input.uuid}

====
